---- MODULE Spec2Model ----
(***************************************************************************)
(* State-machine model of the spillable device buffer                      *)
(* (SpillableBuffer, create_view, DelayedPointerTuple) and of the part of  *)
(* the spill manager the buffer calls into.  Every thread runs one public  *)
(* operation at a time; an operation is a stack of frames, one frame per   *)
(* active call, and a step of a thread executes the code of its top frame  *)
(* up to the next point where another thread's step can matter.            *)
(***************************************************************************)
EXTENDS Integers, Sequences, FiniteSets, TLC

\* ---------------------------------------------------------------- bounds
MaxSize == 2      \* largest buffer size in bytes
MaxPins == 2      \* most pin tokens alive at once
MaxTime == 1      \* largest value of the monotonic clock
NSlots  == 2      \* device allocations the raw allocator can hand out
MaxFrames == 2    \* most frames handed to deserialize, largest frame_count
MaxIndex == 2     \* largest index read from a DelayedPointerTuple
MaxHold == 1      \* most holds of a lock that client code takes itself

Threads  == {"t1", "t2"}
Solo     == {"t1"}
Buffers  == {1, 2}
One      == {1}
NoThread == "none"
NoBuf    == 0

VARIABLES
    bufs,        \* bufs[b]: the fields of base buffer object b
    lock,        \* lock[b]: the RLock of b: owner thread and hold count
    registered,  \* the base buffers the spill manager knows
    owners,      \* owners[t][b]: pin tokens of b in the owners vector of t
    th,          \* th[t]: the call thread t is in, and its stack of frames
    now,         \* time.monotonic()
    ev           \* the call that the last step completed, if it completed one

vars == <<bufs, lock, registered, owners, th, now, ev>>

\* ------------------------------------------------------------ raw memory
\* The bytes a source of n bytes for buffer b holds: pairwise distinct, so
\* a copy of the wrong range or of the wrong buffer shows.
Data(b, n) == [i \in 1..n |-> 10 * b + i]

\* A device allocation lives in one of NSlots slots, MaxSize bytes apart;
\* address 0 is the null pointer.
SlotAddr(k) == k * MaxSize

\* Faulty variant of Bytes: the slice is taken from the start.
BytesFromStart(s, from, n) ==
    [i \in 1..(IF n < Len(s) THEN n ELSE Len(s)) |-> s[i]]

\* s[from .. from+n) of a byte sequence, 0-based like a Python slice
\* (clamped to the sequence's length).
Bytes(s, from, n) ==
    LET lo == IF from < Len(s) THEN from ELSE Len(s)
        hi == IF from + n < Len(s) THEN from + n ELSE Len(s)
    IN  [i \in 1..(hi - lo) |-> s[lo + i]]

\* ---------------------------------------------------------- buffer object
\* owner and mem are options: <<>> is None, <<x>> is x.
Unbuilt ==
    [st |-> "none", type |-> "gpu", ptr |-> 0, size |-> 0, owner |-> <<>>,
     mem |-> <<>>, exposed |-> FALSE, uses |-> 0, la |-> 0]

\* create_expose_counter: a fresh shared_ptr, use_count 1.
create_expose_counter == 1

FreeLock == [owner |-> NoThread, cnt |-> 0]

\* A handle is what client code holds: a base buffer, or a view of one.
BaseHandle(b) == [b |-> b, off |-> 0, sz |-> 0, view |-> FALSE]
NoHandle == [b |-> NoBuf, off |-> 0, sz |-> 0, view |-> FALSE]

\* SpillableBuffer.size / nbytes
size(h) == IF h.view THEN h.sz ELSE bufs[h.b].size

\* SpillableBuffer.is_spilled
is_spilled(b) == bufs[b].type # "gpu"

\* SpillableBuffer.exposed
exposed(b) == bufs[b].exposed

\* SpillableBuffer.expose_counter
expose_counter(b) == bufs[b].uses

\* Faulty variants of spillable: a use count compared with 0, the pins
\* ignored, the exposed latch ignored.
SpillableFromZero(b) == ~bufs[b].exposed /\ bufs[b].uses = 0
SpillableIgnoringPins(b) == ~bufs[b].exposed
SpillableIgnoringExposed(b) == bufs[b].uses = 1

\* SpillableBuffer.spillable (lines 240-244)
spillable(b) == ~bufs[b].exposed /\ bufs[b].uses = 1

\* SpillableBuffer.spillable of a handle: a view asks its base (lines 242-243).
spillable_of(h) == IF h.view THEN spillable(h.b) ELSE spillable(h.b)

\* Faulty variant of exposed_of: a view answers from its own _exposed field,
\* which create_view leaves unset.
ExposedOfOwnField(h) == IF h.view THEN FALSE ELSE exposed(h.b)

\* SpillableBuffer.exposed of a handle: a view asks its base (lines 230-231).
exposed_of(h) == IF h.view THEN exposed(h.b) ELSE exposed(h.b)

\* Faulty variant of is_spilled_of: no buffer counts as spilled.
IsSpilledNever(h) == FALSE

\* SpillableBuffer.is_spilled of a handle: a view asks its base (lines 157-158).
is_spilled_of(h) == IF h.view THEN is_spilled(h.b) ELSE is_spilled(h.b)

\* SpillableBuffer.last_accessed
last_accessed(b) == bufs[b].la

\* SpillableBuffer.is_overlapping (the caller holds or takes the lock)
is_overlapping(b, ptr, n) ==
    /\ ~is_spilled(b)
    /\ ptr + n > bufs[b].ptr
    /\ bufs[b].ptr + bufs[b].size > ptr

\* Number of live pin tokens of b: the use count less the buffer's own
\* reference.
pin_count(b) == expose_counter(b) - 1

\* ------------------------------------------------------------- registers
NoRet == [addr |-> 0, bytes |-> <<>>, hnd |-> NoHandle, kind |-> "none", cnt |-> 0,
          la |-> 0]

Frame(pc, b) ==
    [pc |-> pc, b |-> b, off |-> 0, sz |-> 0, view |-> FALSE, tg |-> "",
     lk |-> FALSE, tmp |-> <<>>, snap |-> <<>>, tried |-> {}]

\* A thread between two calls.
Resting == [stk |-> <<>>, op |-> "none", h |-> NoHandle, tg |-> "", ret |-> NoRet]

\* What a completed call leaves for its caller to see: the call, its result
\* or error, the base buffer's fields just before the completing step (pre)
\* and, for a residency transition, at its start (snap).
NoEv == [t |-> NoThread, op |-> "none", h |-> NoHandle, tg |-> "", ret |-> NoRet,
         err |-> "none", pre |-> <<>>, snap |-> <<>>]

Idle(t) == th[t].stk = <<>>
Top(t)  == th[t].stk[Len(th[t].stk)]
At(t, pc) == ~Idle(t) /\ Top(t).pc = pc

\* The stack of t with its top frame replaced / popped / a callee pushed.
Swap(t, f) == [i \in 1..Len(th[t].stk) |->
                  IF i = Len(th[t].stk) THEN f ELSE th[t].stk[i]]
Pop(t)     == SubSeq(th[t].stk, 1, Len(th[t].stk) - 1)

\* Faulty variant of CanLock: a lock that its owner cannot enter again.
CanLockOnce(t, b) == lock[b].owner = NoThread

\* Faulty variant of CanLock: a lock that excludes nobody.
CanLockAlways(t, b) == TRUE

\* RLock.acquire / RLock.release by thread t
CanLock(t, b) == lock[b].owner \in {NoThread, t}
Acquire(l, t) == [owner |-> t, cnt |-> l.cnt + 1]
Release(l)    == IF l.cnt = 1 THEN FreeLock ELSE [l EXCEPT !.cnt = l.cnt - 1]

TokensAlive(b) ==
    LET RECURSIVE Sum(_)
        Sum(S) == IF S = {} THEN 0
                  ELSE LET t == CHOOSE x \in S : TRUE
                       IN  owners[t][b] + Sum(S \ {t})
    IN  Sum(Threads)

TotalTokens ==
    LET RECURSIVE Sum(_)
        Sum(S) == IF S = {} THEN 0
                  ELSE LET b == CHOOSE x \in S : TRUE
                       IN  TokensAlive(b) + Sum(S \ {b})
    IN  Sum(Buffers)

Init ==
    /\ bufs = [b \in Buffers |-> Unbuilt]
    /\ lock = [b \in Buffers |-> FreeLock]
    /\ registered = {}
    /\ owners = [t \in Threads |-> [b \in Buffers |-> 0]]
    /\ th = [t \in Threads |-> Resting]
    /\ now = 0
    /\ ev = NoEv


\* ------------------------------------------------------- calls and errors
\* An exception leaves every frame of the thread: each `with lock` on the way
\* out releases its hold, and a buffer whose constructor raises is never
\* handed to anybody (the manager holds it weakly, so it forgets it).
Building(t) == {th[t].stk[i].b : i \in {j \in 1..Len(th[t].stk) :
                                        th[t].stk[j].pc \in {"ct_lookup", "ct_done"}}}

\* The holds of the lock of b that the frames of t's call have taken, each
\* in a `with` block it has not left.
Taken(t, b) ==
    Cardinality({i \in 1..Len(th[t].stk) : th[t].stk[i].lk /\ th[t].stk[i].b = b})

\* Faulty variant of Unlocked: an exception leaves the holds in place.
UnlockedNever(t) == lock

Unlocked(t) ==
    [b \in Buffers |->
        IF Taken(t, b) = 0 THEN lock[b]
        ELSE IF lock[b].cnt <= Taken(t, b) THEN FreeLock
        ELSE [lock[b] EXCEPT !.cnt = lock[b].cnt - Taken(t, b)]]

Outcome(t, op, h, tg, r, e, snap) ==
    [t |-> t, op |-> op, h |-> h, tg |-> tg, ret |-> r, err |-> e,
     pre |-> IF h.b \in Buffers THEN <<bufs[h.b]>> ELSE <<>>, snap |-> snap]

Raise(t, e) ==
    /\ th' = [th EXCEPT ![t] = Resting]
    /\ ev' = Outcome(t, th[t].op, th[t].h, th[t].tg, NoRet, e, Top(t).snap)
    /\ lock' = Unlocked(t)
    /\ bufs' = [b \in Buffers |-> IF b \in Building(t) THEN Unbuilt ELSE bufs[b]]
    /\ registered' = registered \ Building(t)

\* The top frame returns r to its caller (to the client, if it is the last).
Return(t, r) ==
    IF Len(th[t].stk) = 1
    THEN /\ th' = [th EXCEPT ![t] = Resting]
         /\ ev' = Outcome(t, th[t].op, th[t].h, th[t].tg, r, "none", Top(t).snap)
    ELSE /\ th' = [th EXCEPT ![t].stk = Pop(t), ![t].ret = r]
         /\ ev' = NoEv

\* A client call: the registers name the call, the stack holds its frames.
Begin(t, op, h, tg, stk) ==
    /\ th' = [th EXCEPT ![t] = [stk |-> stk, op |-> op, h |-> h, tg |-> tg,
                                ret |-> NoRet]]
    /\ ev' = NoEv

\* A client call that is over at once, with result r or error e.
Over(t, op, h, tg, r, e) ==
    /\ th' = th
    /\ ev' = Outcome(t, op, h, tg, r, e, <<>>)

\* A step inside a call: the top frame becomes f / calls callee.
Goto(t, f) ==
    /\ th' = [th EXCEPT ![t].stk = Swap(t, f)]
    /\ ev' = NoEv
Invoke(t, f, callees) ==
    /\ th' = [th EXCEPT ![t].stk = Swap(t, f) \o callees]
    /\ ev' = NoEv

\* Whether handle h lies within its base.
Valid(h) == h.view => h.off + h.sz <= bufs[h.b].size
\* ----------------------------------------------- __getitem__, create_view
\* Faulty variant of Clamp: a bound beyond the end is not brought back.
ClampOpen(i, n) == IF i < 0 THEN (IF i + n < 0 THEN 0 ELSE i + n) ELSE i

\* slice.indices(n) of slice(start, stop, 1); an absent bound is <<>>.
Clamp(i, n) == IF i < 0 THEN (IF i + n < 0 THEN 0 ELSE i + n)
               ELSE (IF i > n THEN n ELSE i)
Indices(key, n) ==
    [start |-> IF key.start = <<>> THEN 0 ELSE Clamp(key.start[1], n),
     stop  |-> IF key.stop = <<>> THEN n ELSE Clamp(key.stop[1], n)]

\* Faulty variant of create_view: the offset of the sliced view is dropped.
CreateViewUnflattened(h, n, offset) ==
    [b |-> h.b, off |-> offset, sz |-> n, view |-> TRUE]

\* Lines 362-379
create_view(h, n, offset) ==
    [b |-> h.b, off |-> (IF h.view THEN h.off ELSE 0) + offset, sz |-> n, view |-> TRUE]

Bounds == {<<>>} \cup {<<i>> : i \in {-1, 0, 1, MaxSize + 1}}
Keys == [start : Bounds, stop : Bounds, step : {1, 2}]
\* b[1:] and b[::2]
FewKeys == {[start |-> <<1>>, stop |-> <<>>, step |-> 1],
            [start |-> <<>>, stop |-> <<>>, step |-> 2]}

\* Faulty variant of getitem: a negative size is let through.
GetitemAnySize(h, key) ==
    LET ix == Indices(key, size(h))
    IN  IF key.step # 1 THEN NoHandle
        ELSE create_view(h, ix.stop - ix.start, ix.start)

\* What __getitem__ gives for key on handle h: a view, or no handle when it
\* raises.
getitem(h, key) ==
    LET ix == Indices(key, size(h))
    IN  IF key.step # 1 \/ ix.stop - ix.start < 0 THEN NoHandle
        ELSE create_view(h, ix.stop - ix.start, ix.start)

\* What the client may hold of base b: b itself and the views that the keys
\* of K cut out of it.
Handles(b, K) ==
    {BaseHandle(b)} \cup ({getitem(BaseHandle(b), k) : k \in K} \ {NoHandle})


Live(B) == {b \in B : bufs[b].st = "live"}

\* The frames of a call of callee-kind pc on handle h.
FrameOn(pc, h) == [Frame(pc, h.b) EXCEPT !.off = h.off, !.sz = h.sz, !.view = h.view]
MoveFrame(b, tg) == [Frame("mv_enter", b) EXCEPT !.tg = tg]
SpillFrame == Frame("sp_pick", NoBuf)

\* ------------------------------------------------------------- allocator
SlotOf(a) == a \div MaxSize
UsedSlots == {SlotOf(bufs[b].owner[1].ptr) : b \in {c \in Buffers : bufs[c].owner # <<>>}}
FreeAddrs == {SlotAddr(k) : k \in (1..NSlots) \ UsedSlots}

\* Faulty variant of DevRead: the copy starts one byte late.
DevReadShifted(b, p, n) ==
    IF bufs[b].owner = <<>> THEN <<>>
    ELSE Bytes(bufs[b].owner[1].data, p - bufs[b].owner[1].ptr + 1, n)

\* copy_ptr_to_host: n bytes of device memory at address p, read through
\* the allocation that b keeps alive.
DevRead(b, p, n) ==
    IF bufs[b].owner = <<>> THEN <<>>
    ELSE Bytes(bufs[b].owner[1].data, p - bufs[b].owner[1].ptr, n)

\* ---------------------------------------------------------- move_inplace
\* The residency fields a transition may touch.
Core(r) == [type |-> r.type, ptr |-> r.ptr, size |-> r.size, owner |-> r.owner,
            mem |-> r.mem]

\* Faulty variant of MvDecide: no spillable test at all.
MvDecideUnchecked(cur, tg, sp) ==
    IF cur = tg THEN "return"
    ELSE IF cur = "gpu" /\ tg = "cpu" THEN "mv_g2c"
    ELSE IF cur = "cpu" /\ tg = "gpu" THEN "mv_c2g"
    ELSE "unknown"

\* Faulty variant of MvDecide: the spillable test placed before the
\* same-residency return.
MvDecideChecksFirst(cur, tg, sp) ==
    IF ~sp THEN "unspillable"
    ELSE IF cur = tg THEN "return"
    ELSE IF cur = "gpu" /\ tg = "cpu" THEN "mv_g2c"
    ELSE IF cur = "cpu" /\ tg = "gpu" THEN "mv_c2g"
    ELSE "unknown"

\* Faulty variant of MvDecide: no else branch, an unknown target falls
\* through to the assignment of the type.
MvDecideNoElse(cur, tg, sp) ==
    IF cur = tg THEN "return"
    ELSE IF ~sp THEN "unspillable"
    ELSE IF cur = "gpu" /\ tg = "cpu" THEN "mv_g2c"
    ELSE IF cur = "cpu" /\ tg = "gpu" THEN "mv_c2g"
    ELSE "mv_settype"

\* Lines 164-173, 179, 186-188: what a call does, given the residency, the
\* target and whether the buffer is spillable: return at once, refuse, or
\* start one of the two transitions.
MvDecide(cur, tg, sp) ==
    IF cur = tg THEN "return"
    ELSE IF ~sp THEN "unspillable"
    ELSE IF cur = "gpu" /\ tg = "cpu" THEN "mv_g2c"
    ELSE IF cur = "cpu" /\ tg = "gpu" THEN "mv_c2g"
    ELSE "unknown"

\* Lines 163-173, 179, 186-188: take the lock and decide.
MvEnter(t) ==
    /\ At(t, "mv_enter")
    /\ LET f == Top(t)
           b == f.b
           d == MvDecide(bufs[b].type, f.tg, spillable(b))
       IN  /\ CanLock(t, b)
           /\ UNCHANGED <<owners, now>>
           /\ CASE d = "return" ->
                     /\ Return(t, NoRet)
                     /\ UNCHANGED <<bufs, lock, registered>>
                [] d = "unspillable" -> Raise(t, "Unspillable")
                [] d = "unknown" -> Raise(t, "UnknownTarget")
                [] OTHER ->
                     /\ Goto(t, [f EXCEPT !.pc = d, !.lk = TRUE,
                                   !.snap = <<[b |-> b, core |-> Core(bufs[b])]>>])
                     /\ lock' = [lock EXCEPT ![b] = Acquire(lock[b], t)]
                     /\ UNCHANGED <<bufs, registered>>

\* Lines 174-176: allocate host memory, copy, keep it in the descriptor.
MvG2C(t) ==
    /\ At(t, "mv_g2c")
    /\ UNCHANGED <<owners, now>>
    /\ LET f == Top(t)
           b == f.b
       IN  \/ Raise(t, "OutOfMemory")
           \/ /\ bufs' = [bufs EXCEPT ![b].mem =
                             <<DevRead(b, bufs[b].ptr, bufs[b].size)>>]
              /\ Goto(t, [f EXCEPT !.pc = "mv_g2c_clear"])
              /\ UNCHANGED <<lock, registered>>

\* Lines 177-178
MvG2CClear(t) ==
    /\ At(t, "mv_g2c_clear")
    /\ LET f == Top(t)
       IN  /\ bufs' = [bufs EXCEPT ![f.b].ptr = 0, ![f.b].owner = <<>>]
           /\ Goto(t, [f EXCEPT !.pc = "mv_settype"])
    /\ UNCHANGED <<lock, registered, owners, now>>

\* Line 181: the argument of to_device is evaluated first.
MvC2GPop(t) ==
    /\ At(t, "mv_c2g")
    /\ UNCHANGED <<owners, now>>
    /\ LET f == Top(t)
           b == f.b
       IN  IF bufs[b].mem = <<>>
           THEN Raise(t, "KeyError")
           ELSE /\ bufs' = [bufs EXCEPT ![b].mem = <<>>]
                /\ Goto(t,
                             [f EXCEPT !.pc = "mv_c2g_dev", !.tmp = bufs[b].mem])
                /\ UNCHANGED <<lock, registered>>

\* Lines 180, 183-185: allocate device memory and copy, or fail.
MvC2GDev(t) ==
    /\ At(t, "mv_c2g_dev")
    /\ UNCHANGED <<owners, now>>
    /\ LET f == Top(t)
           b == f.b
       IN  \/ Raise(t, "OutOfMemory")
           \/ \E a \in FreeAddrs :
                /\ bufs' = [bufs EXCEPT ![b].ptr = a,
                                        ![b].size = Len(f.tmp[1]),
                                        ![b].owner = <<[ptr |-> a, data |-> f.tmp[1]]>>]
                /\ Goto(t,
                             [f EXCEPT !.pc = "mv_settype", !.tmp = <<>>])
                /\ UNCHANGED <<lock, registered>>

\* Line 189, and the end of `with self._lock`.
MvSetType(t) ==
    /\ At(t, "mv_settype")
    /\ LET f == Top(t)
       IN  /\ bufs' = [bufs EXCEPT ![f.b].type = f.tg]
           /\ lock' = [lock EXCEPT ![f.b] = Release(lock[f.b])]
           /\ Return(t, NoRet)
    /\ UNCHANGED <<registered, owners, now>>

move_inplace(t) ==
    \/ MvEnter(t) \/ MvG2C(t) \/ MvG2CClear(t)
    \/ MvC2GPop(t) \/ MvC2GDev(t) \/ MvSetType(t)

\* The client calls move_inplace(target) on handle h (line 162: not a view).
Targets == {"gpu", "cpu", "disk"}
CallMove(t, B, K) ==
    /\ Idle(t)
    /\ \E b \in Live(B) : \E h \in Handles(b, K) : \E tg \in Targets :
          /\ Valid(h)
          /\ IF h.view
             THEN Over(t, "move_inplace", h, tg, NoRet, "AssertionError")
             ELSE Begin(t, "move_inplace", h, tg, <<MoveFrame(b, tg)>>)
    /\ UNCHANGED <<bufs, lock, registered, owners, now>>


\* ------------------------------------------- manager (cudf.core.spill_manager)
\* spill_to_device_limit: while over its budget the manager takes candidates
\* it knows, one at a time, and spills those that can be spilled.  The budget
\* is not modelled: whether the loop stops is a free choice.
SpPick(t) ==
    /\ At(t, "sp_pick")
    /\ UNCHANGED <<bufs, registered, owners, now>>
    /\ LET f == Top(t)
       IN  \/ /\ Return(t, NoRet)
              /\ UNCHANGED lock
           \/ \E c \in registered \ f.tried :
                /\ CanLock(t, c)
                /\ IF ~is_spilled(c) /\ spillable(c)
                   THEN /\ lock' = [lock EXCEPT ![c] = Acquire(lock[c], t)]
                        /\ Invoke(t,
                                     [f EXCEPT !.pc = "sp_next", !.b = c, !.lk = TRUE], <<MoveFrame(c, "cpu")>>)
                   ELSE /\ Goto(t,
                                     [f EXCEPT !.tried = f.tried \cup {c}])
                        /\ UNCHANGED lock

SpNext(t) ==
    /\ At(t, "sp_next")
    /\ LET f == Top(t)
       IN  /\ lock' = [lock EXCEPT ![f.b] = Release(lock[f.b])]
           /\ Goto(t,
                        [f EXCEPT !.pc = "sp_pick", !.b = NoBuf, !.lk = FALSE,
                                  !.tried = f.tried \cup {f.b}])
    /\ UNCHANGED <<bufs, registered, owners, now>>

spill_to_device_limit(t) == SpPick(t) \/ SpNext(t)

\* lookup_address_range: a base the manager knows whose device range
\* overlaps [p, p+n), found through is_overlapping under each base's lock.
lookup_address_range(p, n) == {c \in registered : is_overlapping(c, p, n)}

\* ------------------------------------------------------------------- ptr
\* Lines 198-200: a view delegates to its base and adds its offset; the
\* base first lets the manager spill down to its budget.
\* Faulty variant of PtrFrames: the manager is not called.
PtrFramesNoEnforce(b, off) ==
    <<[Frame("ptr_enter", b) EXCEPT !.off = off,
          !.snap = <<[b |-> b, called |-> bufs[b].type, locked |-> ""]>>]>>

\* The ptr frame keeps the residency the base had at the call.
PtrFrames(b, off) ==
    <<[Frame("ptr_enter", b) EXCEPT !.off = off,
          !.snap = <<[b |-> b, called |-> bufs[b].type, locked |-> ""]>>],
      SpillFrame>>

CallPtr(t, B, K) ==
    /\ Idle(t)
    /\ \E b \in Live(B) : \E h \in Handles(b, K) :
          /\ Valid(h)
          /\ Begin(t, "ptr", h, "", PtrFrames(b, h.off))
    /\ UNCHANGED <<bufs, lock, registered, owners, now>>

\* Faulty variant of PtrEnter: the manager is called again inside the
\* locked section.
PtrEnterEnforcing(t) ==
    /\ At(t, "ptr_enter")
    /\ LET f == Top(t)
       IN  /\ CanLock(t, f.b)
           /\ lock' = [lock EXCEPT ![f.b] = Acquire(lock[f.b], t)]
           /\ Invoke(t,
                        [f EXCEPT !.pc = "ptr_expose", !.lk = TRUE,
                                  !.snap[1].locked = bufs[f.b].type],
                        <<MoveFrame(f.b, "gpu"), SpillFrame>>)
    /\ UNCHANGED <<bufs, registered, owners, now>>

\* Lines 201-202.  The frame keeps the residency found under the lock.
PtrEnter(t) ==
    /\ At(t, "ptr_enter")
    /\ LET f == Top(t)
       IN  /\ CanLock(t, f.b)
           /\ lock' = [lock EXCEPT ![f.b] = Acquire(lock[f.b], t)]
           /\ Invoke(t,
                        [f EXCEPT !.pc = "ptr_expose", !.lk = TRUE,
                                  !.snap[1].locked = bufs[f.b].type],
                        <<MoveFrame(f.b, "gpu")>>)
    /\ UNCHANGED <<bufs, registered, owners, now>>

\* Faulty variant of PtrExpose: the address is returned without setting
\* _exposed.
PtrExposeNoLatch(t) ==
    /\ At(t, "ptr_expose")
    /\ LET f == Top(t)
       IN  /\ bufs' = [bufs EXCEPT ![f.b].la = now]
           /\ lock' = [lock EXCEPT ![f.b] = Release(lock[f.b])]
           /\ Return(t, [NoRet EXCEPT !.addr = bufs[f.b].ptr + f.off,
                                      !.kind = "addr"])
    /\ UNCHANGED <<registered, owners, now>>

\* Lines 203-205 (and line 199 for a view)
PtrExpose(t) ==
    /\ At(t, "ptr_expose")
    /\ LET f == Top(t)
       IN  /\ bufs' = [bufs EXCEPT ![f.b].exposed = TRUE, ![f.b].la = now]
           /\ lock' = [lock EXCEPT ![f.b] = Release(lock[f.b])]
           /\ Return(t, [NoRet EXCEPT !.addr = bufs[f.b].ptr + f.off,
                                              !.kind = "addr"])
    /\ UNCHANGED <<registered, owners, now>>

ptr(t) == PtrEnter(t) \/ PtrExpose(t)

\* --------------------------------------------------------------- ptr_raw
\* The frame keeps the residency the base had at the call.
\* Calls of ptr_raw that have not pushed their token yet.
Pinning == Cardinality({t \in Threads : ~Idle(t) /\ th[t].stk[1].pc \in {"raw_enter", "raw_pin"}})

CallPtrRaw(t, B, K) ==
    /\ Idle(t)
    /\ TotalTokens + Pinning < MaxPins
    /\ \E b \in Live(B) : \E h \in Handles(b, K) :
          /\ Valid(h)
          /\ Begin(t, "ptr_raw", h, "",
                   <<[FrameOn("raw_enter", h) EXCEPT !.snap =
                         <<[b |-> b, called |-> bufs[b].type, locked |-> ""]>>]>>)
    /\ UNCHANGED <<bufs, lock, registered, owners, now>>

\* Lines 211-219.  The frame keeps the residency found under the lock.
PtrRawEnter(t) ==
    /\ At(t, "raw_enter")
    /\ LET f == Top(t)
       IN  /\ CanLock(t, f.b)
           /\ lock' = [lock EXCEPT ![f.b] = Acquire(lock[f.b], t)]
           /\ Invoke(t,
                        [f EXCEPT !.pc = "raw_pin", !.lk = TRUE,
                                  !.snap[1].locked = bufs[f.b].type],
                        <<MoveFrame(f.b, "gpu")>>)
    /\ UNCHANGED <<bufs, registered, owners, now>>

\* Faulty variant of PtrRawPin: the pin also sets _exposed.
PtrRawPinExposing(t) ==
    /\ At(t, "raw_pin")
    /\ LET f == Top(t)
       IN  /\ bufs' = [bufs EXCEPT ![f.b].la = now, ![f.b].uses = @ + 1,
                                   ![f.b].exposed = TRUE]
           /\ owners' = [owners EXCEPT ![t][f.b] = @ + 1]
           /\ lock' = [lock EXCEPT ![f.b] = Release(lock[f.b])]
           /\ Return(t, [NoRet EXCEPT !.addr = bufs[f.b].ptr + f.off,
                                      !.kind = "addr"])
    /\ UNCHANGED <<registered, now>>

\* Lines 220-222: push_back copies the shared_ptr into the caller's vector.
PtrRawPin(t) ==
    /\ At(t, "raw_pin")
    /\ LET f == Top(t)
       IN  /\ bufs' = [bufs EXCEPT ![f.b].la = now, ![f.b].uses = @ + 1]
           /\ owners' = [owners EXCEPT ![t][f.b] = @ + 1]
           /\ lock' = [lock EXCEPT ![f.b] = Release(lock[f.b])]
           /\ Return(t, [NoRet EXCEPT !.addr = bufs[f.b].ptr + f.off,
                                              !.kind = "addr"])
    /\ UNCHANGED <<registered, now>>

ptr_raw(t) == PtrRawEnter(t) \/ PtrRawPin(t)

\* Faulty variant of DropToken: the release also clears _exposed.
DropTokenUnexposing(t, B) ==
    /\ Idle(t)
    /\ \E b \in B :
          /\ owners[t][b] > 0
          /\ owners' = [owners EXCEPT ![t][b] = @ - 1]
          /\ bufs' = [bufs EXCEPT ![b].uses = @ - 1, ![b].exposed = FALSE]
    /\ ev' = NoEv
    /\ UNCHANGED <<lock, registered, th, now>>

\* Faulty variant of DropToken: the use count is not decremented.
DropTokenLeaking(t, B) ==
    /\ Idle(t)
    /\ \E b \in B :
          /\ owners[t][b] > 0
          /\ owners' = [owners EXCEPT ![t][b] = @ - 1]
    /\ ev' = NoEv
    /\ UNCHANGED <<bufs, lock, registered, th, now>>

\* The caller's owners vector lets go of one token: shared_ptr's destructor,
\* an atomic decrement that takes no lock.
DropToken(t, B) ==
    /\ Idle(t)
    /\ \E b \in B :
          /\ owners[t][b] > 0
          /\ owners' = [owners EXCEPT ![t][b] = @ - 1]
          /\ bufs' = [bufs EXCEPT ![b].uses = @ - 1]
    /\ ev' = NoEv
    /\ UNCHANGED <<lock, registered, th, now>>

\* ------------------------------------------------------------ memoryview
CallMemoryview(t, B, K) ==
    /\ Idle(t)
    /\ \E b \in Live(B) : \E h \in Handles(b, K) :
          /\ Valid(h)
          /\ Begin(t, "memoryview", h, "", <<FrameOn("mem_enter", h)>>)
    /\ UNCHANGED <<bufs, lock, registered, owners, now>>

\* Faulty variants of MemDecide: the base is always moved to host; the
\* base is never moved.
MemDecideAlwaysSpill(sp, type) == "spill"
MemDecideNeverSpill(sp, type) == IF type # "gpu" THEN "assert" ELSE "copy"

\* Lines 282 and 287-288: a spillable base is moved to host and sliced,
\* any other must be on device and is copied.
MemDecide(sp, type) ==
    IF sp THEN "spill" ELSE IF type # "gpu" THEN "assert" ELSE "copy"

\* Lines 281-283 and 287-293.  The frame keeps the fields the base had
\* when its lock was taken.
MemEnter(t) ==
    /\ At(t, "mem_enter")
    /\ UNCHANGED <<owners, now>>
    /\ LET f == Top(t)
           b == f.b
           n == size([b |-> b, off |-> f.off, sz |-> f.sz, view |-> f.view])
           d == MemDecide(spillable(b), bufs[b].type)
       IN  /\ CanLock(t, b)
           /\ CASE d = "spill" ->
                     /\ lock' = [lock EXCEPT ![b] = Acquire(lock[b], t)]
                     /\ Invoke(t, [f EXCEPT !.pc = "mem_slice", !.lk = TRUE,
                                     !.snap = <<[b |-> b, core |-> Core(bufs[b]),
                                                 was |-> bufs[b]]>>],
                               <<MoveFrame(b, "cpu")>>)
                     /\ UNCHANGED <<bufs, registered>>
                [] d = "assert" -> Raise(t, "AssertionError")
                [] d = "copy" ->
                     \/ Raise(t, "OutOfMemory")
                     \/ /\ Return(t, [NoRet EXCEPT
                                     !.bytes = DevRead(b, bufs[b].ptr + f.off, n),
                                     !.kind = "copy"])
                        /\ UNCHANGED <<bufs, lock, registered>>

\* Lines 284-286
MemSlice(t) ==
    /\ At(t, "mem_slice")
    /\ UNCHANGED <<owners, now>>
    /\ LET f == Top(t)
           b == f.b
           n == size([b |-> b, off |-> f.off, sz |-> f.sz, view |-> f.view])
       IN  IF bufs[b].mem = <<>>
           THEN Raise(t, "KeyError")
           ELSE /\ lock' = [lock EXCEPT ![b] = Release(lock[b])]
                /\ Return(t, [NoRet EXCEPT
                             !.bytes = Bytes(bufs[b].mem[1], f.off, n),
                             !.kind = "host"])
                /\ UNCHANGED <<bufs, registered>>

memoryview(t) == MemEnter(t) \/ MemSlice(t)

\* ------------------------------------------------------------- serialize
CallSerialize(t, B, K) ==
    /\ Idle(t)
    /\ \E b \in Live(B) : \E h \in Handles(b, K) :
          /\ Valid(h)
          /\ Begin(t, "serialize", h, "", <<FrameOn("ser_enter", h)>>)
    /\ UNCHANGED <<bufs, lock, registered, owners, now>>

\* Lines 311-319: a spilled buffer is sent as host bytes, any other as
\* itself; frame_count is 1.
SerEnter(t) ==
    /\ At(t, "ser_enter")
    /\ UNCHANGED <<bufs, registered, owners, now>>
    /\ LET f == Top(t)
           h == [b |-> f.b, off |-> f.off, sz |-> f.sz, view |-> f.view]
       IN  /\ CanLock(t, f.b)
           /\ IF is_spilled_of(h)
              THEN /\ lock' = [lock EXCEPT ![f.b] = Acquire(lock[f.b], t)]
                   /\ Invoke(t,
                                [f EXCEPT !.pc = "ser_frames", !.lk = TRUE], <<FrameOn("mem_enter", h)>>)
              ELSE /\ Return(t, [NoRet EXCEPT !.hnd = h, !.kind = "self", !.cnt = 1])
                   /\ UNCHANGED lock

SerFrames(t) ==
    /\ At(t, "ser_frames")
    /\ LET f == Top(t)
       IN  /\ lock' = [lock EXCEPT ![f.b] = Release(lock[f.b])]
           /\ Return(t, [th[t].ret EXCEPT !.kind = "frame", !.cnt = 1])
    /\ UNCHANGED <<bufs, registered, owners, now>>

serialize(t) == SerEnter(t) \/ SerFrames(t)


\* -------------------------------------------------------------- __init__
\* Lines 82-131: the fields of a new buffer b built from a source.
\*   "spillable"  another SpillableBuffer
\*   "device"     device memory (rmm.DeviceBuffer or __cuda_array_interface__)
\*                at address p
\*   "host"       a C-contiguous host buffer
\*   "strided"    a host buffer that is not C-contiguous
Sources == {"spillable", "device", "host", "strided"}

Fresh(type, p, d, mem, exp) ==
    [st |-> "new", type |-> type, ptr |-> p, size |-> Len(d),
     owner |-> IF type = "gpu" THEN <<[ptr |-> p, data |-> d]>> ELSE <<>>,
     mem |-> mem, exposed |-> exp, uses |-> create_expose_counter, la |-> now]

\* Device memory a client can pass in: a fresh allocation, or memory that a
\* device-resident buffer already refers to.
DeviceSources(b) ==
    {[ptr |-> a, data |-> Data(b, MaxSize)] : a \in FreeAddrs}
    \cup
    {m \in {[ptr |-> bufs[c].ptr + o, data |-> DevRead(c, bufs[c].ptr + o, n)] :
               c \in {x \in Buffers : bufs[x].st = "live" /\ bufs[x].type = "gpu"
                                      /\ bufs[x].owner # <<>>},
               o \in 0..(MaxSize - 1), n \in 1..MaxSize} : Len(m.data) > 0}

\* Faulty variant of InitError: the layout of a host source is not looked at.
InitErrorNoLayout(src, hint) ==
    IF src = "spillable" THEN "InvalidSource" ELSE "none"

\* Lines 94-98 and 125-127: the sources __init__ refuses.  A host source is
\* asked for its layout only on the wrapping path (exposed=False).
InitError(src, hint) ==
    IF src = "spillable" THEN "InvalidSource"
    ELSE IF src = "strided" /\ ~hint THEN "InvalidLayout"
    ELSE "none"

\* Faulty variant of InitExposed: the hint is kept for a host source too.
InitExposedAsGiven(src, hint) == hint

\* Lines 84 and 123: _exposed of the new buffer.  The device copy of a host
\* source has never been exposed.
InitExposed(src, hint) == IF src = "device" THEN hint ELSE FALSE

\* Lines 82-131, for the call op(a) that builds buffer b from a source of
\* kind src given with exposed=hint: d is the bytes of a host source, M the
\* device memory a device source may be.
Construct(t, op, a, b, src, hint, d, M) ==
    LET h == BaseHandle(b)
        e == InitError(src, hint)
        x == InitExposed(src, hint)
        go == Begin(t, op, h, a, <<Frame("ct_lookup", b)>>)
    IN  CASE e # "none" ->
               /\ Over(t, op, h, a, NoRet, e)
               /\ UNCHANGED bufs
          [] e = "none" /\ src = "device" ->
               \E m \in M :
                 /\ bufs' = [bufs EXCEPT ![b] =
                                Fresh("gpu", m.ptr, m.data, <<>>, x)]
                 /\ go
          [] e = "none" /\ src # "device" /\ hint ->
               \/ /\ Over(t, op, h, a, NoRet, "OutOfMemory")
                  /\ UNCHANGED bufs
               \/ \E p \in FreeAddrs :
                    /\ bufs' = [bufs EXCEPT ![b] = Fresh("gpu", p, d, <<>>, x)]
                    /\ go
          [] e = "none" /\ src # "device" /\ ~hint ->
               /\ bufs' = [bufs EXCEPT ![b] = Fresh("cpu", 0, d, <<d>>, x)]
               /\ go

\* The object a constructor call in B builds: the next one not built yet.
NewBuf(B) == {b \in B : bufs[b].st = "none" /\ \A c \in B : c < b => bufs[c].st # "none"}

CallInit(t, B) ==
    /\ Idle(t)
    /\ UNCHANGED <<lock, registered, owners, now>>
    /\ \E b \in NewBuf(B) : \E src \in Sources : \E hint \in BOOLEAN : \E n \in {MaxSize} :
          Construct(t, "init", [src |-> src, hint |-> hint], b, src, hint,
                    Data(b, n), DeviceSources(b))

\* Faulty variants of Added: an exposed buffer is registered as well; a
\* buffer that aliases a known base is registered as well.
AddedThoughExposed(b, base) == IF base = NoBuf THEN {b} ELSE {}
AddedThoughAliased(b, base) == IF ~bufs[b].exposed THEN {b} ELSE {}

\* Lines 140-144: what manager.add is called with, given the base that the
\* lookup returned (NoBuf for None).
Added(b, base) == IF base = NoBuf /\ ~bufs[b].exposed THEN {b} ELSE {}

\* Faulty variant of InitCalls: the closing call of the manager is left out.
InitCallsNoEnforce(base) ==
    IF base = NoBuf THEN <<>> ELSE PtrFrames(base, 0)

\* Lines 140-147: the calls __init__ still makes once the lookup has returned
\* base, last call first: base.ptr if a base was found, then
\* spill_to_device_limit.
InitCalls(base) ==
    IF base = NoBuf THEN <<SpillFrame>>
    ELSE <<SpillFrame>> \o PtrFrames(base, 0)

\* Lines 136-147: an overlapping known base is exposed (line 141, base.ptr),
\* else an unexposed buffer is registered; then the manager spills down to
\* its budget (line 147).  The calls still to make are stacked in order:
\* the top one runs first.
CtLookup(t) ==
    /\ At(t, "ct_lookup")
    /\ UNCHANGED <<bufs, lock, owners, now>>
    /\ LET f == Top(t)
           found == lookup_address_range(bufs[f.b].ptr, bufs[f.b].size)
       IN  /\ \A c \in registered : CanLock(t, c)
           /\ \E base \in (IF found = {} THEN {NoBuf} ELSE found) :
                /\ registered' = registered \cup Added(f.b, base)
                /\ Invoke(t, [f EXCEPT !.pc = "ct_done",
                                       !.snap = <<[base |-> base]>>],
                          InitCalls(base))

\* __init__ returns: the client holds the new buffer.
CtDone(t) ==
    /\ At(t, "ct_done")
    /\ bufs' = [bufs EXCEPT ![Top(t).b].st = "live"]
    /\ Return(t, [NoRet EXCEPT !.hnd = BaseHandle(Top(t).b), !.kind = "buffer"])
    /\ UNCHANGED <<lock, registered, owners, now>>

init(t) == CtLookup(t) \/ CtDone(t)

\* ----------------------------------------------------------- deserialize
\* Faulty variant of DeserError: only the header is looked at.
DeserErrorHeaderOnly(cnt, n) ==
    IF cnt # 1 THEN "FrameCountMismatch" ELSE "none"

\* Lines 325-329: header["frame_count"] != 1 raises ValueError, and so does
\* unpacking `frame, = frames` when frames has not exactly one element.
DeserError(cnt, n) ==
    IF cnt # 1 THEN "FrameCountMismatch"
    ELSE IF n # 1 THEN "FrameCountMismatch"
    ELSE "none"

\* Faulty variant of DeserHint: the new buffer is built as exposed.
DeserHintExposed == TRUE

\* Line 333: exposed=False
DeserHint == FALSE

\* The frames a client can hand to deserialize: a SpillableBuffer (base or
\* view), the host bytes that the preceding serialize returned (src is the
\* buffer they were taken from), host memory that is not contiguous, or
\* device memory, fresh or in use by a buffer.
NoFrame == [kind |-> "none", hnd |-> NoHandle, bytes |-> <<>>, ptr |-> 0, src |-> NoHandle]

WireFrames(B, K) ==
    {[NoFrame EXCEPT !.kind = "spillable", !.hnd = h, !.src = h] :
        h \in {g \in UNION {Handles(b, K) : b \in Live(B)} : Valid(g)}}
    \cup
    (IF ev.op = "serialize" /\ ev.err = "none" /\ ev.ret.kind = "frame"
     THEN {[NoFrame EXCEPT !.kind = "host", !.bytes = ev.ret.bytes, !.src = ev.h]}
     ELSE {})
    \cup
    {[NoFrame EXCEPT !.kind = "strided", !.bytes = Data(b, MaxSize)] : b \in NewBuf(B)}
    \cup
    {[NoFrame EXCEPT !.kind = "device", !.bytes = m.data, !.ptr = m.ptr] :
        m \in UNION {DeviceSources(b) : b \in NewBuf(B)}}

\* Lines 321-334, with header["frame_count"] = cnt and n frames x.
CallDeserialize(t, B, K) ==
    /\ Idle(t)
    /\ UNCHANGED <<lock, registered, owners, now>>
    /\ \E cnt \in 0..MaxFrames : \E n \in 0..MaxFrames : \E x \in WireFrames(B, K) :
          LET a == [cnt |-> cnt, n |-> n, frame |-> x]
              e == DeserError(cnt, n)
          IN  CASE e # "none" ->
                     /\ Over(t, "deserialize", x.hnd, a, NoRet, e)
                     /\ UNCHANGED bufs
                [] e = "none" /\ x.kind = "spillable" ->
                     /\ Over(t, "deserialize", x.hnd, a,
                             [NoRet EXCEPT !.hnd = x.hnd, !.kind = "buffer"], "none")
                     /\ UNCHANGED bufs
                [] e = "none" /\ x.kind # "spillable" ->
                     \E b \in NewBuf(B) :
                        Construct(t, "deserialize", a, b, x.kind, DeserHint,
                                  x.bytes, {[ptr |-> x.ptr, data |-> x.bytes]})

\* ------------------------------ __cuda_array_interface__, is_overlapping
\* Lines 260-268: the description holds a DelayedPointerTuple on the buffer
\* and its size; nothing is read from the buffer but its size.
CallInterface(t, B, K) ==
    /\ Idle(t)
    /\ \E b \in Live(B) : \E h \in Handles(b, K) :
          /\ Valid(h)
          /\ Over(t, "cuda_array_interface", h, "",
                  [NoRet EXCEPT !.hnd = h, !.kind = "desc"], "none")
    /\ UNCHANGED <<bufs, lock, registered, owners, now>>

\* Faulty variant of DelayedItem: the flag element reads the pointer too.
DelayedItemEager(i) ==
    IF i = 0 \/ i = 1 THEN "ptr" ELSE "IndexError"

\* Lines 50-55: DelayedPointerTuple.__getitem__
DelayedItem(i) ==
    IF i = 0 THEN "ptr" ELSE IF i = 1 THEN "false" ELSE "IndexError"

\* Reading element i of the data field of a description of h.
CallDataItem(t, B, K) ==
    /\ Idle(t)
    /\ \E b \in Live(B) : \E h \in Handles(b, K) : \E i \in 0..MaxIndex :
          /\ Valid(h)
          /\ CASE DelayedItem(i) = "ptr" ->
                    Begin(t, "data_item", h, i, PtrFrames(b, h.off))
               [] DelayedItem(i) = "false" ->
                    Over(t, "data_item", h, i, [NoRet EXCEPT !.kind = "false"], "none")
               [] OTHER ->
                    Over(t, "data_item", h, i, NoRet, "IndexError")
    /\ UNCHANGED <<bufs, lock, registered, owners, now>>

\* The addresses and sizes is_overlapping is asked about.
QueryAddrs == 0..SlotAddr(NSlots + 1)

\* Lines 336-342: `with self._lock`, then the test.  On a base the lock is
\* its RLock; on a view _lock is None (line 375), which is no context
\* manager, so the `with` statement raises before anything is read.  Q is
\* the set of addresses asked about; the frame keeps the question.
CallOverlapping(t, B, K, Q) ==
    /\ Idle(t)
    /\ \E b \in Live(B) : \E h \in Handles(b, K) :
       \E p \in Q : \E n \in 0..MaxSize :
          /\ Valid(h)
          /\ IF h.view
             THEN Over(t, "is_overlapping", h, "", NoRet, "AttributeError")
             ELSE Begin(t, "is_overlapping", h, "",
                        <<[Frame("ov_enter", b) EXCEPT
                              !.snap = <<[ptr |-> p, size |-> n]>>]>>)
    /\ UNCHANGED <<bufs, lock, registered, owners, now>>

\* Lines 337-342 on a base: the test, made once the lock is there.
overlapping(t) ==
    /\ At(t, "ov_enter")
    /\ LET f == Top(t)
       IN  /\ CanLock(t, f.b)
           /\ Return(t, [NoRet EXCEPT !.kind =
                             IF is_overlapping(f.b, f.snap[1].ptr, f.snap[1].size)
                             THEN "true" ELSE "false"])
    /\ UNCHANGED <<bufs, lock, registered, owners, now>>

\* ------------------------------------------------- lock, last_accessed
\* Lines 149-153 and the client's `with buffer.lock:`: a view has no lock
\* to give; the lock of a base is taken by the client itself.
CallLock(t, B, K) ==
    /\ Idle(t)
    /\ \E b \in Live(B) : \E h \in Handles(b, K) :
          /\ Valid(h)
          /\ IF h.view
             THEN /\ Over(t, "lock", h, "", NoRet, "ValueError")
                  /\ UNCHANGED lock
             ELSE /\ CanLock(t, b)
                  /\ lock[b].cnt < MaxHold
                  /\ lock' = [lock EXCEPT ![b] = Acquire(lock[b], t)]
                  /\ Over(t, "lock", h, "", [NoRet EXCEPT !.kind = "lock"], "none")
    /\ UNCHANGED <<bufs, registered, owners, now>>

\* The end of the client's `with buffer.lock:`.
LockExit(t, B) ==
    /\ Idle(t)
    /\ \E b \in B :
          /\ lock[b].owner = t
          /\ lock' = [lock EXCEPT ![b] = Release(lock[b])]
    /\ ev' = NoEv
    /\ UNCHANGED <<bufs, registered, owners, th, now>>

\* Faulty variant of last_accessed_of: a view answers from its own field,
\* which create_view leaves unset.
LastAccessedOwnField(h) == IF h.view THEN 0 ELSE last_accessed(h.b)

\* SpillableBuffer.last_accessed of a handle: a view asks its base
\* (lines 256-257).
last_accessed_of(h) == IF h.view THEN last_accessed(h.b) ELSE last_accessed(h.b)

\* Lines 254-258: read without the lock.
CallLastAccessed(t, B, K) ==
    /\ Idle(t)
    /\ \E b \in Live(B) : \E h \in Handles(b, K) :
          /\ Valid(h)
          /\ Over(t, "last_accessed", h, "",
                  [NoRet EXCEPT !.la = last_accessed_of(h), !.kind = "time"], "none")
    /\ UNCHANGED <<bufs, lock, registered, owners, now>>

\* ----------------------------------------------------------- __getitem__
\* Lines 295-301
Slice(t, B, K) ==
    /\ Idle(t)
    /\ \E b \in Live(B) : \E h \in Handles(b, K) : \E key \in K :
          /\ Valid(h)
          /\ IF getitem(h, key) = NoHandle
             THEN Over(t, "slice", h, "", NoRet, "InvalidArgument")
             ELSE Over(t, "slice", h, "",
                       [NoRet EXCEPT !.hnd = getitem(h, key), !.kind = "view"], "none")
    /\ UNCHANGED <<bufs, lock, registered, owners, now>>

\* Lines 295-301 on a base, or on the view that the preceding __getitem__
\* returned: chains of slices of any length.  The key is kept with the call.
Held(b) == IF ev.op = "slice" /\ ev.ret.kind = "view" /\ ev.ret.hnd.b = b
           THEN {ev.ret.hnd} ELSE {}

SliceChain(t, B, K) ==
    /\ Idle(t)
    /\ \E b \in Live(B) : \E h \in {BaseHandle(b)} \cup Held(b) : \E key \in K :
          IF getitem(h, key) = NoHandle
          THEN Over(t, "slice", h, key, NoRet, "InvalidArgument")
          ELSE Over(t, "slice", h, key,
                    [NoRet EXCEPT !.hnd = getitem(h, key), !.kind = "view"], "none")
    /\ UNCHANGED <<bufs, lock, registered, owners, now>>

\* ------------------------------------------------------------------ time
Tick ==
    /\ now < MaxTime
    /\ now' = now + 1
    /\ ev' = NoEv
    /\ UNCHANGED <<bufs, lock, registered, owners, th>>

\* --------------------------------------------------------- specifications
Step(t, B, K) ==
    \/ CallInit(t, B) \/ init(t)
    \/ CallMove(t, B, K) \/ move_inplace(t)
    \/ CallPtr(t, B, K) \/ ptr(t)
    \/ CallPtrRaw(t, B, K) \/ ptr_raw(t)
    \/ DropToken(t, B)
    \/ CallMemoryview(t, B, K) \/ memoryview(t)
    \/ CallSerialize(t, B, K) \/ serialize(t)
    \/ spill_to_device_limit(t)
    \/ Slice(t, B, K)

\* Two threads working on one base buffer and a view of it; the clock
\* stands still.
Next == \E t \in Threads : Step(t, One, FewKeys)
Spec == Init /\ [][Next]_vars

\* One thread working on two base buffers, which may alias.
NextTwo == \E t \in Solo : Step(t, Buffers, FewKeys)
SpecTwo == Init /\ [][NextTwo]_vars

\* One thread working on one base buffer while time passes.
NextTime == Tick \/ \E t \in Solo : Step(t, One, FewKeys)
SpecTime == Init /\ [][NextTime]_vars

\* One thread serializing and deserializing two base buffers and a view.
NextWire ==
    \E t \in Solo :
        \/ CallInit(t, Buffers) \/ init(t)
        \/ move_inplace(t) \/ spill_to_device_limit(t) \/ ptr(t)
        \/ CallSerialize(t, Buffers, FewKeys) \/ serialize(t) \/ memoryview(t)
        \/ CallDeserialize(t, Buffers, FewKeys)
SpecWire == Init /\ [][NextWire]_vars

\* One thread building one base buffer and asking about it and a view of it.
NextQuery ==
    \E t \in Solo :
        \/ CallInit(t, One) \/ init(t)
        \/ move_inplace(t) \/ spill_to_device_limit(t) \/ ptr(t)
        \/ CallInterface(t, One, FewKeys) \/ CallDataItem(t, One, FewKeys)
        \/ CallOverlapping(t, One, {}, QueryAddrs) \/ overlapping(t)
SpecQuery == Init /\ [][NextQuery]_vars

\* One thread building one base buffer, moving it, and slicing it and the
\* views it gets with every key.
NextSlice ==
    \E t \in Solo :
        \/ CallInit(t, One) \/ init(t)
        \/ CallMove(t, One, {}) \/ move_inplace(t)
        \/ spill_to_device_limit(t)
        \/ SliceChain(t, One, Keys)
SpecSlice == Init /\ [][NextSlice]_vars

\* Two threads working on one base buffer and a view of it, taking its lock
\* themselves as well and asking it about address ranges.
NextGuard ==
    \E t \in Threads :
        \/ Step(t, One, FewKeys)
        \/ CallLock(t, One, FewKeys) \/ LockExit(t, One)
        \/ CallOverlapping(t, One, FewKeys, {SlotAddr(1)}) \/ overlapping(t)
SpecGuard == Init /\ [][NextGuard]_vars

\* Two threads asking one base buffer and a view of it for pointers, and
\* for the time of the last access, while time passes.
NextAccess ==
    \/ Tick
    \/ \E t \in Threads :
          \/ CallInit(t, One) \/ init(t)
          \/ CallPtr(t, One, FewKeys) \/ ptr(t)
          \/ CallPtrRaw(t, One, FewKeys) \/ ptr_raw(t)
          \/ DropToken(t, One)
          \/ move_inplace(t) \/ spill_to_device_limit(t)
          \/ CallLastAccessed(t, One, FewKeys)
SpecAccess == Init /\ [][NextAccess]_vars

\* The steps inside a call that thread t has made.
Run(t) ==
    \/ init(t) \/ move_inplace(t) \/ ptr(t) \/ ptr_raw(t)
    \/ memoryview(t) \/ serialize(t) \/ spill_to_device_limit(t)
    \/ overlapping(t)

\* Where t is in its call: every step of Run(t) changes it.
Shape(t) == [i \in 1..Len(th[t].stk) |-> <<th[t].stk[i].pc, th[t].stk[i].tried>>]

\* Two threads calling the locking operations on one base buffer and a
\* view of it.  A thread inside a call goes on running, and a thread that
\* finds the lock free again and again gets it in the end; nothing makes a
\* client call.
NextLive ==
    \E t \in Threads :
        \/ CallInit(t, One) \/ CallMove(t, One, FewKeys)
        \/ CallPtr(t, One, FewKeys) \/ CallPtrRaw(t, One, FewKeys)
        \/ DropToken(t, One)
        \/ CallMemoryview(t, One, FewKeys) \/ CallSerialize(t, One, FewKeys)
        \/ CallOverlapping(t, One, FewKeys, {SlotAddr(1)})
        \/ Run(t)
SpecLive == Init /\ [][NextLive]_vars /\ \A t \in Threads : SF_Shape(t)(Run(t))

\* ================================================================ claims
Built == {b \in Buffers : bufs[b].st # "none"}
Done(op) == ev.op = op /\ ev.h.b \in Buffers
Pre == ev.pre[1]

\* C1: in every reachable state, for every base buffer and every view of it,
\* spillable is true exactly when the base is not exposed and no pin token
\* of the base is alive.
C1_SpillableIffFree ==
    \A b \in Built : \A h \in Handles(b, FewKeys) :
        spillable_of(h) = (~exposed(b) /\ TokensAlive(b) = 0)

\* C1 witness: an unexposed base with a live token, and so not spillable.
C1_Witness ==
    \E b \in Built : ~exposed(b) /\ TokensAlive(b) > 0 /\ ~spillable(b)

\* C2: once a base buffer is exposed it stays exposed, whatever step is
\* taken next, for as long as the buffer exists.
C2_ExposedLatch ==
    [][\A b \in Buffers :
          (bufs[b].st = "live" /\ exposed(b)) => (bufs'[b].st = "live" /\ exposed(b)')]_vars

\* C2 witness: a call on an already exposed base has completed, and the base
\* is still exposed.
C2_Witness ==
    /\ ev.op \in {"memoryview", "serialize", "move_inplace", "ptr_raw", "slice"}
    /\ ev.h.b \in Buffers
    /\ Pre.exposed /\ exposed(ev.h.b)

\* C3: while a pin token of a base is alive the base is device resident and
\* the next step leaves it so, at the same address; a move_inplace to host
\* that completes while a token is alive has failed with Unspillable.
Resident(b) == bufs[b].type = "gpu" /\ bufs[b].ptr # 0 /\ bufs[b].owner # <<>>
C3_PinnedStays ==
    [][\A b \in Buffers :
          TokensAlive(b) > 0 =>
             /\ Resident(b) /\ Resident(b)'
             /\ bufs'[b].ptr = bufs[b].ptr
             /\ (ev'.op = "move_inplace" /\ ev'.h = BaseHandle(b) /\ ev'.tg = "cpu")
                   => ev'.err = "Unspillable"]_vars

\* C3 witness: a move to host was refused on an unexposed, pinned base.
C3_Witness ==
    /\ Done("move_inplace") /\ ev.tg = "cpu" /\ ev.err = "Unspillable"
    /\ ~exposed(ev.h.b) /\ TokensAlive(ev.h.b) > 0

\* C4: when ptr returns for a base or a view, the base is device resident
\* and exposed and the value returned is the base address plus the view's
\* offset; an exposed base is device resident and not spillable, and
\* remains so after any step.
C4_PtrExposesForGood ==
    [][\A b \in Buffers :
          /\ (ev'.op = "ptr" /\ ev'.h.b = b /\ ev'.err = "none") =>
                /\ Resident(b)' /\ exposed(b)'
                /\ ev'.ret.addr = bufs'[b].ptr + ev'.h.off
          /\ (bufs[b].st = "live" /\ exposed(b)) =>
                (exposed(b)' /\ Resident(b)' /\ ~spillable(b)')]_vars

\* C4 witness: ptr has returned for a view at a positive offset.
C4_Witness ==
    /\ Done("ptr") /\ ev.err = "none" /\ ev.h.view /\ ev.h.off > 0
    /\ ev.ret.addr = bufs[ev.h.b].ptr + ev.h.off

\* C5: no step of a ptr_raw call changes the exposed flag of any base; and
\* an unexposed base is spillable exactly when none of its tokens is alive.
C5_PtrRawKeepsExposed ==
    [][/\ \A t \in Threads :
             ((th[t].op = "ptr_raw" \/ th'[t].op = "ptr_raw") /\ th'[t] # th[t]) =>
                 \A b \in Buffers : exposed(b)' = exposed(b)
       /\ \A b \in Buffers :
             (bufs'[b].st # "none" /\ ~exposed(b)') =>
                 (spillable(b)' = (TokensAlive(b)' = 0))]_vars

\* C5 witness: ptr_raw has returned and its base is unexposed, not spillable.
C5_Witness ==
    /\ Done("ptr_raw") /\ ev.err = "none"
    /\ ~exposed(ev.h.b) /\ ~spillable(ev.h.b)

\* C6: the pin count of a base is the number of its tokens alive in the
\* owners vectors of all threads; it is never negative.
C6_PinCountIsTokens ==
    \A b \in Built : pin_count(b) = TokensAlive(b) /\ pin_count(b) >= 0

\* C6 witness: two threads hold a token of the same base at the same time.
C6_Witness ==
    \E b \in Built : \E t, u \in Threads :
        t # u /\ owners[t][b] > 0 /\ owners[u][b] > 0 /\ pin_count(b) = 2

\* C7: a move_inplace to the other residency on a base that is exposed or
\* pinned has raised Unspillable and has left every field of the base as it
\* was.
C7_UnspillableUnchanged ==
    (/\ Done("move_inplace") /\ ~ev.h.view
     /\ ev.tg \in {"gpu", "cpu"} /\ ev.tg # Pre.type
     /\ (Pre.exposed \/ Pre.uses > 1))
    => (ev.err = "Unspillable" /\ bufs[ev.h.b] = Pre)

\* C7 witness: such a move was refused on an exposed base.
C7_Witness ==
    /\ Done("move_inplace") /\ ev.tg = "cpu" /\ ev.err = "Unspillable"
    /\ Pre.exposed /\ Pre.type = "gpu"

\* C8: a move_inplace whose target is the base's residency raises nothing
\* and leaves every field of the base, last_accessed included, as it was.
C8_SameTargetNoOp ==
    (Done("move_inplace") /\ ~ev.h.view /\ ev.tg = Pre.type)
    => (ev.err = "none" /\ bufs[ev.h.b] = Pre)

\* C8 witness: such a call on an exposed base whose last access is in the
\* past.
C8_Witness ==
    /\ Done("move_inplace") /\ ev.tg = Pre.type /\ ev.err = "none"
    /\ ~spillable(ev.h.b) /\ last_accessed(ev.h.b) < now

\* C9 as stated: a move_inplace to a target that is neither device nor host
\* raises UnsupportedTarget on every base and leaves it unchanged.
C9_Original ==
    (Done("move_inplace") /\ ~ev.h.view /\ ev.tg \notin {"gpu", "cpu"})
    => (ev.err = "UnknownTarget" /\ bufs[ev.h.b] = Pre)

\* C9 amended: such a move_inplace always fails and leaves the base
\* unchanged; it raises UnsupportedTarget on a spillable base and
\* Unspillable on an exposed or pinned one.
C9_UnknownTargetFails ==
    (Done("move_inplace") /\ ~ev.h.view /\ ev.tg \notin {"gpu", "cpu"})
    => /\ ev.err = (IF ~Pre.exposed /\ Pre.uses = 1 THEN "UnknownTarget"
                    ELSE "Unspillable")
       /\ bufs[ev.h.b] = Pre

\* C9 witness: UnsupportedTarget raised on a host-resident base.
C9_Witness ==
    /\ Done("move_inplace") /\ ev.tg = "disk" /\ ev.err = "UnknownTarget"
    /\ Pre.type = "cpu"

\* C10: when the allocation or copy of a residency transition fails, the
\* base has the residency, address, host storage and owner it had when the
\* transition began.
C10_AllOrNothing ==
    (ev.err = "OutOfMemory" /\ ev.snap # <<>>)
    => Core(bufs[ev.snap[1].b]) = ev.snap[1].core

\* The bytes a buffer with fields r stands for: those of its device range,
\* or those of its host storage.
Content(r) ==
    IF r.type = "gpu"
    THEN (IF r.owner = <<>> THEN <<>>
          ELSE Bytes(r.owner[1].data, r.ptr - r.owner[1].ptr, r.size))
    ELSE (IF r.mem = <<>> THEN <<>> ELSE r.mem[1])

\* C11: a base buffer whose lock is free is backed by exactly one tier: on
\* device it has no host storage and its address lies in the allocation of
\* its owner; on host it has host storage, address 0 and no owner.
C11_OneTier ==
    \A b \in Buffers :
        (bufs[b].st = "live" /\ lock[b] = FreeLock) =>
            IF bufs[b].type = "gpu"
            THEN /\ bufs[b].mem = <<>> /\ bufs[b].owner # <<>>
                 /\ bufs[b].ptr = bufs[b].owner[1].ptr
            ELSE /\ bufs[b].mem # <<>> /\ bufs[b].owner = <<>>
                 /\ bufs[b].ptr = 0

\* C12: a move_inplace that completes a transition between device and host
\* leaves the size and the bytes of the base as they were when it began;
\* a buffer that holds bytes holds the bytes of its source, whatever
\* transitions it has been through.
C12_MovesKeepBytes ==
    /\ (Done("move_inplace") /\ ev.err = "none" /\ ev.snap # <<>>) =>
          /\ bufs[ev.h.b].size = ev.snap[1].core.size
          /\ Content(bufs[ev.h.b]) = Content(ev.snap[1].core)
          /\ bufs[ev.h.b].type = ev.tg /\ ev.snap[1].core.type # ev.tg
    /\ \A b \in One :
          (bufs[b].st = "live" /\ lock[b] = FreeLock /\ Content(bufs[b]) # <<>>) =>
              (bufs[b].size = MaxSize /\ Content(bufs[b]) = Data(b, MaxSize))

\* C12 witness: a move from host to device has completed and the device
\* range holds the bytes the host storage held.
C12_Witness ==
    /\ Done("move_inplace") /\ ev.err = "none" /\ ev.snap # <<>>
    /\ ev.snap[1].core.type = "cpu" /\ bufs[ev.h.b].type = "gpu"
    /\ Content(bufs[ev.h.b]) = ev.snap[1].core.mem[1]
    /\ Len(Content(bufs[ev.h.b])) = MaxSize

\* C13: every view of a base reports the exposed flag, the residency and
\* the spillability of the base, and the address that ptr or ptr_raw
\* returns for a view is the device address of the base plus the view's
\* offset.
C13_ViewFollowsBase ==
    /\ \A b \in Built : \A h \in Handles(b, FewKeys) :
          /\ exposed_of(h) = exposed(b)
          /\ is_spilled_of(h) = is_spilled(b)
          /\ spillable_of(h) = spillable(b)
    /\ (ev.op \in {"ptr", "ptr_raw"} /\ ev.err = "none" /\ ev.h.view) =>
          /\ Resident(ev.h.b)
          /\ ev.ret.addr = bufs[ev.h.b].ptr + ev.h.off

\* C13 witness: ptr_raw has returned the address of a view at a positive
\* offset of an exposed base.
C13_Witness ==
    /\ Done("ptr_raw") /\ ev.err = "none" /\ ev.h.view /\ ev.h.off > 0
    /\ exposed(ev.h.b) /\ exposed_of(ev.h)
    /\ ev.ret.addr = bufs[ev.h.b].ptr + ev.h.off

\* C14: slicing a view at offset o1 of base b with a key that resolves to
\* offset o2 and size s2 gives a view of b itself, at offset o1 + o2 and of
\* size s2; slicing a base gives a view of it at offset o2.
C14_SliceFlattens ==
    (Done("slice") /\ ev.err = "none") =>
        LET ix == Indices(ev.tg, size(ev.h))
            o1 == IF ev.h.view THEN ev.h.off ELSE 0
        IN  /\ ev.ret.hnd.view
            /\ ev.ret.hnd.b = ev.h.b /\ bufs[ev.ret.hnd.b].st = "live"
            /\ ev.ret.hnd.off = o1 + ix.start
            /\ ev.ret.hnd.sz = ix.stop - ix.start

\* C14 witness: a view at a positive offset was sliced at a positive offset.
C14_Witness ==
    /\ Done("slice") /\ ev.err = "none" /\ ev.h.view /\ ev.h.off > 0
    /\ ev.ret.hnd.off > ev.h.off /\ ev.ret.hnd.b = ev.h.b

\* C15: the size of a base stays the one it was built with, and every view
\* that a slice returns, and every view that one or two slices with any
\* keys cut out of a base, lies within the base, whatever its residency.
C15_ViewsWithinBase ==
    /\ (Done("slice") /\ ev.err = "none") =>
          /\ ev.ret.hnd.off >= 0 /\ ev.ret.hnd.sz >= 0
          /\ ev.ret.hnd.off + ev.ret.hnd.sz <= bufs[ev.ret.hnd.b].size
    /\ \A b \in Live(One) :
          /\ bufs[b].size = MaxSize
          /\ \A k1 \in Keys :
                LET v == getitem(BaseHandle(b), k1)
                IN  v # NoHandle =>
                      /\ Valid(v)
                      /\ \A k2 \in Keys :
                            getitem(v, k2) # NoHandle => Valid(getitem(v, k2))

\* C15 witness: a view of a view was cut with out-of-range and negative
\* bounds out of a base that is on host.
C15_Witness ==
    /\ Done("slice") /\ ev.err = "none" /\ ev.h.view
    /\ ev.tg.start = <<-1>> /\ ev.tg.stop = <<MaxSize + 1>>
    /\ is_spilled(ev.h.b) /\ Valid(ev.ret.hnd)

\* C16: a slice fails, with InvalidArgument, exactly when its step is not 1
\* or its bounds resolve to a stop before the start; a failed slice returns
\* no view and leaves every field of the base as it was.
C16_BadSliceFails ==
    Done("slice") =>
        LET ix  == Indices(ev.tg, size(ev.h))
            bad == ev.tg.step # 1 \/ ix.stop - ix.start < 0
        IN  /\ ev.err = (IF bad THEN "InvalidArgument" ELSE "none")
            /\ bad => (ev.ret = NoRet /\ bufs[ev.h.b] = Pre)

\* C16 witness: a slice with step 1 whose stop resolves before its start has
\* failed.
C16_Witness ==
    /\ Done("slice") /\ ev.err = "InvalidArgument" /\ ev.tg.step = 1
    /\ Indices(ev.tg, size(ev.h)).stop < Indices(ev.tg, size(ev.h)).start
    /\ bufs[ev.h.b] = Pre

\* C17: __init__ from a SpillableBuffer raises InvalidSource, and __init__
\* with exposed=False from a host buffer that is not contiguous raises
\* InvalidLayout; the step that raises either of them leaves the registry,
\* every buffer and every lock as they were and starts no call of the
\* manager.
C17_RefusedBeforeManager ==
    [][ev'.op = "init" =>
          /\ ev'.tg.src = "spillable" => ev'.err = "InvalidSource"
          /\ (ev'.tg.src = "strided" /\ ~ev'.tg.hint) => ev'.err = "InvalidLayout"
          /\ ev'.err \in {"InvalidSource", "InvalidLayout"} =>
                /\ registered' = registered /\ bufs' = bufs
                /\ lock' = lock /\ th' = th]_vars

\* C17 witness: InvalidLayout was raised while the manager knows a buffer
\* that is still spillable.
C17_Witness ==
    /\ Done("init") /\ ev.err = "InvalidLayout"
    /\ \E c \in registered : bufs[c].st = "live" /\ spillable(c) /\ ~is_spilled(c)

\* C18 as stated: a buffer built from a host source is unexposed and
\* spillable when __init__ returns; with exposed=True it is on device, with
\* exposed=False it is on host, wrapping the source, with address 0.
C18_Original ==
    (Done("init") /\ ev.err = "none" /\ ev.tg.src \in {"host", "strided"}) =>
        LET b == ev.h.b
        IN  /\ ~exposed(b) /\ spillable(b)
            /\ IF ev.tg.hint
               THEN Resident(b) /\ bufs[b].mem = <<>>
               ELSE /\ bufs[b].type = "cpu" /\ bufs[b].ptr = 0
                    /\ bufs[b].mem = <<Data(b, MaxSize)>>

\* C18 amended: __init__ puts a host source given with exposed=True on a
\* fresh device copy (a source that is not contiguous too) and wraps one
\* given with exposed=False on host with address 0, unexposed in both
\* cases; when __init__ returns the buffer is unexposed, spillable and
\* holds the bytes of the source, the wrapped one is on host, and the
\* copied one is on device unless the manager, which knows it, has spilled
\* it to host while enforcing its budget.
C18_HostSourceUnexposed ==
    /\ \A t \in Threads :
          (At(t, "ct_lookup") /\ th[t].tg.src \in {"host", "strided"}) =>
              LET b == Top(t).b
              IN  /\ ~exposed(b) /\ expose_counter(b) = 1
                  /\ Content(bufs[b]) = Data(b, MaxSize)
                  /\ IF th[t].tg.hint
                     THEN Resident(b) /\ bufs[b].mem = <<>>
                     ELSE /\ bufs[b].type = "cpu" /\ bufs[b].ptr = 0
                          /\ bufs[b].mem = <<Data(b, MaxSize)>>
    /\ (Done("init") /\ ev.err = "none" /\ ev.tg.src \in {"host", "strided"}) =>
          LET b == ev.h.b
          IN  /\ ~exposed(b) /\ spillable(b)
              /\ Content(bufs[b]) = Data(b, MaxSize)
              /\ IF ev.tg.hint
                 THEN \/ Resident(b) /\ bufs[b].mem = <<>>
                      \/ /\ b \in registered
                         /\ bufs[b].type = "cpu" /\ bufs[b].ptr = 0
                 ELSE /\ bufs[b].type = "cpu" /\ bufs[b].ptr = 0
                      /\ bufs[b].mem = <<Data(b, MaxSize)>>

\* C18 witness: __init__ has returned a device-resident, unexposed buffer
\* for a host source that is not contiguous, given with exposed=True.
C18_Witness ==
    /\ Done("init") /\ ev.err = "none"
    /\ ev.tg.src = "strided" /\ ev.tg.hint
    /\ Resident(ev.h.b) /\ ~exposed(ev.h.b) /\ spillable(ev.h.b)

\* C19: when __init__ returns, the manager knows the new buffer exactly when
\* its lookup found no known base and the new buffer is not exposed; a
\* buffer built from device memory with exposed=True is not known to it.
C19_RegisteredIffNew ==
    (Done("init") /\ ev.err = "none") =>
        LET b == ev.h.b
        IN  /\ (b \in registered) = (ev.snap[1].base = NoBuf /\ ~exposed(b))
            /\ (ev.tg.src = "device" /\ ev.tg.hint) => b \notin registered

\* C19 witness: __init__ has returned an exposed buffer on device memory
\* that no known base overlaps, and the manager does not know it.
C19_Witness ==
    /\ Done("init") /\ ev.err = "none" /\ ev.tg.src = "device" /\ ev.tg.hint
    /\ ev.snap[1].base = NoBuf /\ exposed(ev.h.b)
    /\ ev.h.b \notin registered /\ registered # {}

\* C20: when the lookup of __init__ found a known base and __init__ returns,
\* that base is exposed, device resident and not spillable, and the manager
\* does not know the new buffer.
C20_AliasExposesBase ==
    (Done("init") /\ ev.err = "none" /\ ev.snap[1].base # NoBuf) =>
        LET c == ev.snap[1].base
        IN  /\ c # ev.h.b /\ bufs[c].st = "live"
            /\ exposed(c) /\ Resident(c) /\ ~spillable(c)
            /\ ev.h.b \notin registered

\* C20 witness: an unexposed buffer was built on the memory of a known base,
\* which is now exposed.
C20_Witness ==
    /\ Done("init") /\ ev.err = "none" /\ ev.snap[1].base \in Buffers
    /\ ~exposed(ev.h.b) /\ exposed(ev.snap[1].base)
    /\ ev.snap[1].base \in registered

\* C21: a memoryview call on a base or view whose base is exposed or pinned
\* leaves every field of the base as it was, fails only for want of memory,
\* and returns a copy of the bytes [offset, offset+size) of the base.
C21_UnspillableCopied ==
    (Done("memoryview") /\ (Pre.exposed \/ Pre.uses > 1)) =>
        /\ ev.err \in {"none", "OutOfMemory"}
        /\ bufs[ev.h.b] = Pre
        /\ ev.err = "none" =>
              /\ ev.ret.kind = "copy"
              /\ ev.ret.bytes = Bytes(Content(Pre), ev.h.off, size(ev.h))
              /\ Len(ev.ret.bytes) = size(ev.h)

\* C21 witness: a view at a positive offset of a pinned, unexposed base was
\* copied to host.
C21_Witness ==
    /\ Done("memoryview") /\ ev.err = "none" /\ ev.ret.kind = "copy"
    /\ ev.h.view /\ ev.h.off > 0 /\ ~Pre.exposed /\ Pre.uses > 1
    /\ Resident(ev.h.b) /\ ev.ret.bytes # <<>>

\* C22: a memoryview call that returns took the copying path only for an
\* exposed or pinned base; for a spillable base it leaves the base on host,
\* with the bytes it held, and returns the bytes [offset, offset+size) of
\* the host storage, as many as the size of the buffer or view.
C22_SpillableSliced ==
    /\ (Done("memoryview") /\ ev.err = "none" /\ ev.snap = <<>>) =>
          (Pre.exposed \/ Pre.uses > 1)
    /\ (Done("memoryview") /\ ev.err = "none" /\ ev.snap # <<>>) =>
          LET b   == ev.h.b
              was == ev.snap[1].was
          IN  /\ ~was.exposed /\ was.uses = 1
              /\ bufs[b].type = "cpu" /\ bufs[b].ptr = 0 /\ bufs[b].owner = <<>>
              /\ bufs[b].mem = <<Content(was)>>
              /\ bufs[b].exposed = was.exposed /\ bufs[b].uses = was.uses
              /\ ev.ret.kind = "host"
              /\ ev.ret.bytes = Bytes(bufs[b].mem[1], ev.h.off, size(ev.h))
              /\ Len(ev.ret.bytes) = size(ev.h)

\* C22 witness: memoryview of a view spilled a device-resident base in place.
C22_Witness ==
    /\ Done("memoryview") /\ ev.err = "none" /\ ev.snap # <<>>
    /\ ev.snap[1].was.type = "gpu" /\ is_spilled(ev.h.b)
    /\ ev.h.view /\ ev.ret.bytes = Bytes(Data(ev.h.b, MaxSize), ev.h.off, ev.h.sz)

\* C23: no step of a serialize call changes a field of any buffer; a
\* serialize call that returns gives frame_count 1 and one frame, which is
\* the bytes [offset, offset+size) of the host storage when the base is on
\* host and the buffer or view itself when it is on device.
C23_SerializeOneFrame ==
    [][/\ \A t \in Threads :
             ((th[t].op = "serialize" \/ th'[t].op = "serialize") /\ th'[t] # th[t]) =>
                 (bufs' = bufs /\ registered' = registered)
       /\ (ev'.op = "serialize" /\ ev'.err = "none") =>
             LET h == ev'.h
                 r == ev'.ret
             IN  /\ r.cnt = 1
                 /\ r.kind = (IF bufs'[h.b].type # "gpu" THEN "frame" ELSE "self")
                 /\ r.kind = "self" => r.hnd = h
                 /\ r.kind = "frame" =>
                       /\ bufs'[h.b].mem # <<>>
                       /\ r.bytes = Bytes(bufs'[h.b].mem[1], h.off,
                                          IF h.view THEN h.sz ELSE bufs'[h.b].size)]_vars

\* C23 witness: a view of a host-resident base was serialized as its bytes.
C23_Witness ==
    /\ Done("serialize") /\ ev.err = "none" /\ ev.ret.kind = "frame"
    /\ ev.ret.cnt = 1 /\ ev.h.view /\ ev.ret.bytes # <<>>
    /\ is_spilled(ev.h.b) /\ bufs[ev.h.b] = Pre

\* The bytes a buffer or view stands for.
HContent(h) ==
    LET c == Content(bufs[h.b])
    IN  [i \in {j \in 1..size(h) : h.off + j <= Len(c)} |-> c[h.off + i]]

\* C24: a deserialize call that returns for the frame that serialize gave
\* for a buffer or view (its bytes when on host, itself when on device)
\* gives a buffer of the same size and the same bytes as that buffer or view.
C24_RoundTrip ==
    (ev.op = "deserialize" /\ ev.err = "none" /\ ev.tg.frame.src # NoHandle) =>
        LET src == ev.tg.frame.src
            new == ev.ret.hnd
        IN  /\ new.b \in Buffers
            /\ size(new) = size(src)
            /\ HContent(new) = HContent(src)
            /\ ev.tg.frame.kind = "host" => HContent(new) = ev.tg.frame.bytes

\* C24 witness: the bytes of a view at a positive offset of a host-resident
\* base came back as a new buffer.
C24_Witness ==
    /\ ev.op = "deserialize" /\ ev.err = "none" /\ ev.tg.frame.kind = "host"
    /\ ev.tg.frame.src.view /\ ev.tg.frame.src.off > 0
    /\ ev.ret.hnd.b # ev.tg.frame.src.b
    /\ HContent(ev.ret.hnd) = HContent(ev.tg.frame.src) /\ HContent(ev.ret.hnd) # <<>>

\* C25: deserialize raises FrameCountMismatch exactly when frame_count or
\* the number of frames is not 1, and the step that raises it leaves every
\* buffer and the registry as they were and starts no construction.
C25_FrameCount ==
    [][ev'.op = "deserialize" =>
          /\ (ev'.err = "FrameCountMismatch") = (ev'.tg.cnt # 1 \/ ev'.tg.n # 1)
          /\ ev'.err = "FrameCountMismatch" =>
                (bufs' = bufs /\ registered' = registered /\ th' = th)]_vars

\* C25 witness: frame_count was 1 but two frames were supplied.
C25_Witness ==
    /\ ev.op = "deserialize" /\ ev.err = "FrameCountMismatch"
    /\ ev.tg.cnt = 1 /\ ev.tg.n = 2 /\ ev.tg.frame.kind = "host"
    /\ \A b \in NewBuf(Buffers) : bufs[b] = Unbuilt

\* C26 as stated: deserialize of one frame that is a SpillableBuffer returns
\* it and changes nothing; of any other frame it returns a new, unexposed
\* base buffer that the manager knows.
C26_Original ==
    [][(ev'.op = "deserialize" /\ ev'.err = "none") =>
          IF ev'.tg.frame.kind = "spillable"
          THEN /\ ev'.ret.hnd = ev'.tg.frame.hnd
               /\ bufs' = bufs /\ registered' = registered
          ELSE LET nb == ev'.ret.hnd.b
               IN  /\ ~ev'.ret.hnd.view /\ bufs[nb].st = "new" /\ bufs'[nb].st = "live"
                   /\ ~bufs'[nb].exposed
                   /\ nb \in registered']_vars

\* C26 amended: as above, but the manager knows the new buffer exactly when
\* its lookup found no known base on the frame's memory, which is so for
\* every host frame; a known base that was found is exposed instead.
C26_Deserialize ==
    [][(ev'.op = "deserialize" /\ ev'.err = "none") =>
          IF ev'.tg.frame.kind = "spillable"
          THEN /\ ev'.ret.hnd = ev'.tg.frame.hnd
               /\ bufs' = bufs /\ registered' = registered
          ELSE LET nb == ev'.ret.hnd.b
                   base == ev'.snap[1].base
               IN  /\ ~ev'.ret.hnd.view /\ bufs[nb].st = "new" /\ bufs'[nb].st = "live"
                   /\ ~bufs'[nb].exposed
                   /\ (nb \in registered') = (base = NoBuf)
                   /\ ev'.tg.frame.kind = "host" => nb \in registered'
                   /\ base # NoBuf => (bufs'[base].exposed /\ nb \notin registered')]_vars

\* C26 witness: a host frame was made into a new base buffer that the
\* manager knows, next to the buffer the frame came from.
C26_Witness ==
    /\ ev.op = "deserialize" /\ ev.err = "none" /\ ev.tg.frame.kind = "host"
    /\ ev.ret.hnd.b \in registered /\ ~exposed(ev.ret.hnd.b)
    /\ is_spilled(ev.ret.hnd.b) /\ ev.ret.hnd.b # ev.tg.frame.src.b

\* C27: is_overlapping(ptr, size) on a base answers true exactly when the
\* base is on device and some address lies both in [ptr, ptr+size) and in
\* the range of the base; an empty range meets nothing.
C27_OverlapIffIntersect ==
    Done("is_overlapping") =>
        LET b == ev.h.b
            q == {a \in QueryAddrs : ev.snap[1].ptr <= a
                                      /\ a < ev.snap[1].ptr + ev.snap[1].size}
            r == {a \in QueryAddrs : bufs[b].ptr <= a /\ a < bufs[b].ptr + bufs[b].size}
        IN  (ev.ret.kind = "true") = (~is_spilled(b) /\ q \cap r # {})

\* C28: building the description changes nothing, and neither does reading
\* the flag element of its data field, which is false; reading the address
\* element returns the device address of the buffer or view with the base on
\* device and exposed; and no other step exposes a buffer.
C28_DescriptionIsLazy ==
    [][/\ ev'.op = "cuda_array_interface" =>
             /\ ev'.ret.kind = "desc" /\ ev'.ret.hnd = ev'.h
             /\ bufs' = bufs /\ registered' = registered /\ th' = th
       /\ (ev'.op = "data_item" /\ ev'.tg = 1) =>
             /\ ev'.ret.kind = "false" /\ ev'.err = "none"
             /\ bufs' = bufs /\ registered' = registered /\ th' = th
       /\ (ev'.op = "data_item" /\ ev'.tg = 0 /\ ev'.err = "none") =>
             LET b == ev'.h.b
             IN  /\ bufs'[b].type = "gpu" /\ bufs'[b].exposed
                 /\ ev'.ret.addr = bufs'[b].ptr + ev'.h.off
       /\ \A b \in Buffers :
             (bufs[b].st = "live" /\ bufs'[b].exposed # bufs[b].exposed) =>
                 \E t \in Threads : th[t].op = "data_item" /\ th[t].tg = 0]_vars

\* C28 witness: a description of a view of a host-resident, unexposed base
\* was built, and the base is still on host and spillable.
C28_Witness ==
    /\ Done("cuda_array_interface") /\ ev.ret.kind = "desc" /\ ev.h.view
    /\ is_spilled(ev.h.b) /\ spillable(ev.h.b) /\ ~exposed(ev.h.b)

\* Frames of the manager's budget enforcement, of ptr, of __init__ past its
\* lookup; whether frame i of a stack is one of them.
SpPcs == {"sp_pick", "sp_next"}
PtrPcs == {"ptr_enter", "ptr_expose"}
Has(stk, i, pcs) == i >= 1 /\ i <= Len(stk) /\ stk[i].pc \in pcs

\* C29: a ptr call, on a base, for a view or made by __init__, starts by
\* calling the manager's enforcement, with the base lock not taken; the
\* enforcement is never called again by that call; the lock is taken only
\* once the enforcement has returned; no step before that changes the
\* exposed flag of the base; and a ptr call that returns leaves the base
\* on device and exposed.
C29_EnforceThenExpose ==
    [][/\ \A t \in Threads : \A i \in 1..Len(th'[t].stk) :
             LET S == th[t].stk
                 T == th'[t].stk
                 new == ~Has(S, i, PtrPcs)
             IN  Has(T, i, PtrPcs) =>
                   /\ new => (T[i].pc = "ptr_enter" /\ ~T[i].lk /\ Has(T, i + 1, {"sp_pick"}))
                   /\ Has(T, i + 1, SpPcs) =>
                         /\ T[i].pc = "ptr_enter" /\ ~T[i].lk
                         /\ new \/ (S[i].pc = "ptr_enter" /\ Has(S, i + 1, SpPcs))
                   /\ (~new /\ S[i].pc = "ptr_enter") =>
                         /\ bufs'[S[i].b].exposed = bufs[S[i].b].exposed
                         /\ T[i].pc = "ptr_expose" => (i = Len(S) /\ T[i].lk)
       /\ (ev'.op = "ptr" /\ ev'.err = "none") =>
             /\ bufs'[ev'.h.b].type = "gpu" /\ bufs'[ev'.h.b].owner # <<>>
             /\ bufs'[ev'.h.b].exposed]_vars

\* C29 witness: ptr has returned for a base the manager knows that was on
\* device when ptr was called and on host when ptr took its lock.
C29_Witness ==
    /\ Done("ptr") /\ ev.err = "none" /\ ev.h.b \in registered
    /\ ev.snap[1].called = "gpu" /\ ev.snap[1].locked = "cpu"
    /\ Resident(ev.h.b) /\ exposed(ev.h.b)

\* C30: the step of __init__ that decides on registration leaves the call
\* of the manager's enforcement as the last thing to do before returning,
\* after base.ptr if a base was found; from then on the registration of
\* the new buffer does not change, the enforcement is not called again, and
\* __init__ returns only once it has returned.
C30_EnforceLast ==
    [][/\ \A t \in Threads : \A i \in 1..Len(th'[t].stk) :
             LET S == th[t].stk
                 T == th'[t].stk
                 new == ~Has(S, i, {"ct_done"})
             IN  Has(T, i, {"ct_done"}) =>
                   /\ new => /\ Has(S, i, {"ct_lookup"})
                             /\ Has(T, i + 1, {"sp_pick"}) /\ T[i + 1] = SpillFrame
                   /\ ~new => (T[i].b \in registered') = (T[i].b \in registered)
                   /\ Has(T, i + 1, SpPcs \cup PtrPcs \cup {"ct_done"}) => Has(T, i + 1, SpPcs)
                   /\ Has(T, i + 2, PtrPcs) => T[i + 1] = SpillFrame
                   /\ (~new /\ Has(T, i + 1, SpPcs)) => Has(S, i + 1, SpPcs)
       /\ \A t \in Threads :
             (ev'.t = t /\ ev'.op = "init" /\ ev'.err = "none") =>
                 /\ Len(th[t].stk) = 1 /\ th[t].stk[1].pc = "ct_done"
                 /\ (ev'.h.b \in registered') = (ev'.h.b \in registered)]_vars

\* C30 witness: the enforcement that closes a construction has the new,
\* registered buffer among its candidates and is spilling it.
C30_Witness ==
    \E t \in Threads :
        /\ Len(th[t].stk) >= 2 /\ th[t].op = "init"
        /\ th[t].stk[1].pc = "ct_done" /\ th[t].stk[2].pc = "sp_next"
        /\ th[t].stk[2].b = th[t].stk[1].b /\ th[t].stk[1].b \in registered

\* The thread that takes a step: its call or its tokens change.
Mover(t) == th'[t] # th[t] \/ owners'[t] # owners[t]
EnterPcs == {"mv_enter", "ptr_enter", "raw_enter", "mem_enter", "ser_enter",
             "ov_enter"}

\* C31 as stated: once a base is constructed, every step that changes its
\* residency fields, its exposed flag or its pin count, up or down, is taken
\* by a thread that holds the lock of the base.
C31_Original ==
    [][\A b \in Buffers :
          (/\ bufs[b].st = "live" /\ bufs'[b].st = "live"
           /\ \/ Core(bufs'[b]) # Core(bufs[b])
              \/ bufs'[b].exposed # bufs[b].exposed
              \/ pin_count(b)' # pin_count(b))
          => \E t \in Threads : Mover(t) /\ lock[b].owner = t /\ lock[b].cnt > 0]_vars

\* C31: once a base is constructed, every step that changes its residency
\* fields or its exposed flag, or that raises its pin count, is taken by a
\* thread that holds the lock of the base; a step that lowers the pin count
\* is the release of one token by its holder, changes nothing else of the
\* base, and takes no lock.
C31_LockedMutations ==
    [][\A b \in Buffers :
          (bufs[b].st = "live" /\ bufs'[b].st = "live") =>
             /\ (\/ Core(bufs'[b]) # Core(bufs[b])
                 \/ bufs'[b].exposed # bufs[b].exposed
                 \/ pin_count(b)' > pin_count(b))
                => \E t \in Threads : Mover(t) /\ lock[b].owner = t /\ lock[b].cnt > 0
             /\ pin_count(b)' < pin_count(b)
                => /\ \E t \in Threads : /\ owners'[t][b] = owners[t][b] - 1
                                         /\ th'[t] = th[t] /\ Idle(t)
                   /\ pin_count(b)' = pin_count(b) - 1
                   /\ Core(bufs'[b]) = Core(bufs[b])
                   /\ bufs'[b].exposed = bufs[b].exposed
                   /\ lock' = lock]_vars

\* C31 witness: a thread is in the middle of a residency transition of a
\* constructed base, holding its lock, while the other thread waits for
\* that lock at the start of an operation.
C31_Witness ==
    \E t \in Threads : \E u \in Threads \ {t} : \E b \in Buffers :
        /\ bufs[b].st = "live"
        /\ At(t, "mv_settype") /\ Top(t).b = b /\ lock[b].owner = t
        /\ Core(bufs[b]) # Top(t).snap[1].core
        /\ ~Idle(u) /\ Top(u).pc \in EnterPcs /\ Top(u).b = b /\ ~CanLock(u, b)

\* Operations that take the lock of the base, and the handle of a frame.
LockOps == {"move_inplace", "ptr", "ptr_raw", "memoryview", "serialize",
            "is_overlapping"}
Hold(t, b) == IF lock[b].owner = t THEN lock[b].cnt ELSE 0

\* C32: asking a view for its lock fails and takes nothing; move_inplace on
\* a view fails and leaves every buffer as it was; is_overlapping on a view
\* answers, and ptr, ptr_raw, memoryview, serialize and is_overlapping on a
\* view take a step on the base only while no other thread holds the lock
\* of the base, and hold that lock for as long as one of their frames is
\* in its locked section.
C32_ViewsLockBase ==
    [][\A t \in Threads :
          /\ (ev'.t = t /\ ev'.op = "lock" /\ ev'.h.view) =>
                ev'.err = "ValueError" /\ lock' = lock /\ bufs' = bufs
          /\ (ev'.t = t /\ ev'.op = "move_inplace" /\ ev'.h.view) =>
                ev'.err # "none" /\ lock' = lock /\ bufs' = bufs
          /\ (ev'.t = t /\ ev'.op = "is_overlapping" /\ ev'.h.view) =>
                ev'.err = "none" /\ lock[ev'.h.b].owner \in {NoThread, t}
          /\ (th[t].h.view /\ th[t].op \in LockOps /\ th'[t] # th[t] /\ ~Idle(t)) =>
                /\ Top(t).pc \in EnterPcs => lock[th[t].h.b].owner \in {NoThread, t}
                /\ \A i \in 1..Len(th'[t].stk) :
                      th'[t].stk[i].lk => lock'[th'[t].stk[i].b].owner = t]_vars

\* C33: a ptr or ptr_raw call that returns, on a base or through a view,
\* leaves last_accessed of the base at the current time, written by a step
\* of the thread that holds the lock of the base; no step lowers
\* last_accessed of a constructed base, and no step changes it but one taken
\* by the holder of its lock; last_accessed of a view is that of its base.
C33_AccessTimes ==
    [][/\ \A t \in Threads :
             (ev'.t = t /\ ev'.op \in {"ptr", "ptr_raw"} /\ ev'.err = "none") =>
                 /\ bufs'[ev'.h.b].la = now
                 /\ lock[ev'.h.b].owner = t /\ lock[ev'.h.b].cnt > 0
       /\ \A b \in Buffers :
             (bufs[b].st = "live" /\ bufs'[b].st = "live") =>
                 /\ last_accessed(b)' >= last_accessed(b)
                 /\ last_accessed(b)' # last_accessed(b) =>
                       \E t \in Threads : Mover(t) /\ lock[b].owner = t
       /\ ev'.op = "last_accessed" =>
             /\ ev'.ret.la = last_accessed(ev'.h.b) /\ ev'.err = "none"
             /\ bufs' = bufs /\ lock' = lock]_vars

\* C33 witness: ptr has returned through a view, and the time of the last
\* access of the base has moved forward to the current time.
C33_Witness ==
    /\ Done("ptr") /\ ev.err = "none" /\ ev.h.view
    /\ Pre.la < last_accessed(ev.h.b) /\ last_accessed(ev.h.b) = now

\* C34: in every reachable state a base that is exposed or has a live
\* pin token is on device, with its device allocation, so a base on host is
\* spillable; no memoryview call, alone or inside serialize, fails its
\* assertion, and no ptr or ptr_raw call is refused as Unspillable.
C34_UnspillableOnDevice ==
    /\ \A b \in Built :
          /\ (exposed(b) \/ TokensAlive(b) > 0 \/ pin_count(b) > 0) => Resident(b)
          /\ is_spilled(b) => spillable(b)
    /\ ev.op \in {"memoryview", "serialize"} => ev.err # "AssertionError"
    /\ ev.op \in {"ptr", "ptr_raw"} => ev.err # "Unspillable"

\* C34 witness: memoryview has returned a copy of an exposed base that the
\* other thread is asking for a pinned pointer.
C34_Witness ==
    /\ Done("memoryview") /\ ev.err = "none" /\ ev.ret.kind = "copy"
    /\ exposed(ev.h.b) /\ Resident(ev.h.b)
    /\ \E u \in Threads \ {ev.t} : th[u].op = "ptr_raw" /\ ~Idle(u)

\* A base that is exposed, pinned, or in the hands of a ptr or ptr_raw call
\* that has moved it and still holds its lock.
Kept(b) ==
    \/ exposed(b) \/ pin_count(b) > 0
    \/ \E t \in Threads : /\ lock[b].owner = t
                          /\ At(t, "raw_pin") \/ At(t, "ptr_expose")
                          /\ Top(t).b = b

\* C35 as stated: while a ptr or ptr_raw call is in progress on a base that
\* was on host when the call was made, the base never goes from device to
\* host, so all the calls in progress share one move to device; and every
\* call that returns gives the address of the base plus its own offset.
C35_Original ==
    [][\A t \in Threads :
          /\ (/\ ~Idle(t) /\ th[t].op \in {"ptr", "ptr_raw"}
              /\ th[t].stk[1].snap[1].called = "cpu") =>
                ~(bufs[th[t].h.b].type = "gpu" /\ bufs'[th[t].h.b].type = "cpu")
          /\ (ev'.t = t /\ ev'.op \in {"ptr", "ptr_raw"} /\ ev'.err = "none") =>
                ev'.ret.addr = bufs'[ev'.h.b].ptr + ev'.h.off]_vars

\* C35: the move of a base to device is made by a thread that holds its
\* lock and leaves the base kept; from then on, as long as no pin token is
\* released, no step moves the base or changes its address; and every ptr
\* or ptr_raw call that returns finds the base on device, kept, and gives
\* the address of the base plus its own offset.
C35_OneMoveWhileKept ==
    [][/\ \A b \in Buffers :
             (bufs[b].st = "live" /\ bufs'[b].st = "live") =>
                 /\ (bufs[b].type = "cpu" /\ bufs'[b].type = "gpu") =>
                       /\ \E t \in Threads : Mover(t) /\ lock[b].owner = t
                       /\ Kept(b)'
                 /\ (Kept(b) /\ bufs[b].type = "gpu" /\ pin_count(b)' >= pin_count(b)) =>
                       /\ Kept(b)'
                       /\ Core(bufs'[b]) = Core(bufs[b])
       /\ \A t \in Threads :
             (ev'.t = t /\ ev'.op \in {"ptr", "ptr_raw"} /\ ev'.err = "none") =>
                 /\ ev'.ret.addr = bufs'[ev'.h.b].ptr + ev'.h.off
                 /\ \E b \in Buffers : b = ev'.h.b /\ Resident(b)' /\ Kept(b)']_vars

\* C35 witness: ptr_raw has returned through a view for a base that was on
\* host when it was called and on device when it got the lock, the other
\* thread having moved it meanwhile and still holding a token.
C35_Witness ==
    /\ Done("ptr_raw") /\ ev.err = "none" /\ ev.h.view
    /\ ev.snap[1].called = "cpu" /\ ev.snap[1].locked = "gpu"
    /\ ev.ret.addr = bufs[ev.h.b].ptr + ev.h.off
    /\ \E u \in Threads \ {ev.t} : owners[u][ev.h.b] > 0

\* C36: the holds a thread has on a base lock beyond those its running
\* call has taken and not yet given back change only when the thread itself
\* enters or leaves a `with buffer.lock` of its own, between two calls; the
\* frames of a call never count more holds than the thread has; so when one
\* of the locking operations returns or raises, the thread holds the lock
\* as often as when it called; and a thread that holds the lock of a base
\* is never kept waiting at the start of a nested operation on that base.
C36_HoldsRestored ==
    [][\A t \in Threads : \A b \in Buffers :
          /\ Taken(t, b) <= Hold(t, b)
          /\ (Hold(t, b)' - Taken(t, b)' # Hold(t, b) - Taken(t, b)) =>
                /\ Idle(t) /\ Idle(t)'
                /\ (ev'.t = t /\ ev'.op = "lock") \/ ev' = NoEv
          /\ (ev'.t = t /\ ev'.op \in LockOps) =>
                /\ Idle(t)' /\ Taken(t, b)' = 0
                /\ Hold(t, b)' = Hold(t, b) - Taken(t, b)
          /\ (~Idle(t) /\ Top(t).pc \in EnterPcs /\ Top(t).b = b /\ Hold(t, b) > 0) =>
                CanLock(t, b) /\ lock[b].owner = t]_vars

\* C36 witness: ptr, called by a thread inside its own `with buffer.lock`,
\* has failed in the allocation of its nested move to device, and the
\* thread still holds the lock once.
C36_Witness ==
    /\ Done("ptr") /\ ev.err = "OutOfMemory"
    /\ Idle(ev.t) /\ Hold(ev.t, ev.h.b) = 1
    /\ Pre.mem = <<>> /\ Pre.type = "cpu"

\* Frames that run code of the manager: the lookup and registration of
\* __init__, and the budget enforcement.
ManagerPcs == {"ct_lookup", "sp_pick", "sp_next"}

\* C37: whenever a thread is in a call of the manager, no frame of a
\* buffer operation below that call is in a locked section, and when the
\* manager is about to look up, register or pick a candidate the thread
\* holds no buffer lock at all; the only locks held during a manager call
\* are those the manager takes on its candidates.
C37_ManagerOutsideLocks ==
    \A t \in Threads : \A i \in 1..Len(th[t].stk) :
        th[t].stk[i].pc \in ManagerPcs =>
            /\ \A j \in 1..(i - 1) : ~th[t].stk[j].lk
            /\ \A b \in Buffers :
                  Hold(t, b) = Cardinality({j \in i..Len(th[t].stk) :
                                    th[t].stk[j].lk /\ th[t].stk[j].b = b})
            /\ (i = Len(th[t].stk) /\ th[t].stk[i].pc \in {"ct_lookup", "sp_pick"}) =>
                  \A b \in Buffers : Hold(t, b) = 0

\* C37 witness: __init__ has found a known base on the new buffer's memory
\* and called its ptr, whose budget enforcement is spilling that very base
\* under the manager's hold of its lock, the ptr frame not having locked.
C37_Witness ==
    \E t \in Threads :
        /\ Len(th[t].stk) >= 4
        /\ th[t].stk[1].pc = "ct_done" /\ th[t].stk[3].pc = "ptr_enter"
        /\ th[t].stk[4].pc = "sp_next" /\ th[t].stk[4].b = th[t].stk[3].b
        /\ ~th[t].stk[3].lk /\ Hold(t, th[t].stk[3].b) = 1

====
